---------------------------- MODULE Spec2Model ----------------------------
(***************************************************************************)
(* A model of the chat streaming orchestrator (LlmManager) and of the MCP  *)
(* client manager (MCPClientManager) of onlook's studio application.       *)
(*                                                                         *)
(* JavaScript strings are modelled as sequences of one-character strings   *)
(* wherever the code looks inside them (server ids, tool names, prefixed   *)
(* tool names) and as sequences of tokens where the code only parses them  *)
(* (response bodies).                                                      *)
(***************************************************************************)
EXTENDS Integers, Sequences, FiniteSets, TLC

\* ------------------------------------------------------------------------
\* Bounds of the model
\* ------------------------------------------------------------------------

\* Number of stream() calls made on the orchestrator in one run.
MaxCalls == 2

\* Number of partial events the provider emits during one stream() call.
MaxEvents == 2

\* Federated tool invocations per stream() call.
MaxToolCalls == 1

VARIABLES
    \* --- LlmManager (chat/index.ts) ---
    abortController,   \* this.abortController: 0 is null, c the controller of call c
    aborted,           \* controllers whose abort() has been called
    call,              \* per stream() call: its position and its locals
    mainWindow,        \* the exported mainWindow binding of the main process
    lastAbort,         \* observation of the last abortStream() call
    \* --- MCPClientManager (both versions of the class) ---
    version,           \* which of the two MCPClientManager classes is running
    config,            \* this.config.mcpServers: the descriptor of each server id
    attempt,           \* per server id: where its connection attempt stands
    init,              \* the promise returned by initializeClients()
    clients,           \* this.clients
    serverToEscapedMap,\* this.serverToEscapedMap
    escapedToServerMap,\* this.escapedToServerMap
    tools,             \* this.tools
    toolsCache,        \* this.toolsCache
    op,                \* per manager operation: its position, locals and result
    listed,            \* what the listAllTools() call that returned last returned
    conns,             \* per server: its connection and whether close() was called on it
    \* --- the naming scheme applied to one server id and one tool name ---
    naming,            \* the inputs and what each function returned for them
    \* --- MCPService (mcp/service.ts) ---
    service,           \* its fields mcpManager, tools, toolSet and isInitialized
    ipcHandlers,       \* the channels of this.ipcHandlers
    registered,        \* the channels ipcMain holds a handler for
    managers,          \* the MCPClientManager instances, seen from the service
    run,               \* per call into the service: its position and locals
    clock,             \* the number of calls into the service so far
    \* --- the federation as stream() sees it ---
    federated,         \* the tool set MCPService.getToolSet() returns
    \* --- the configuration file ---
    stored,            \* the descriptor PersistentStorage.MCP holds for each server id
    \* --- the quit sequence of the main process ---
    cleanupComplete,   \* the module variable cleanupComplete
    app,               \* whether the application runs, and its before-quit events
    cleanup            \* per cleanUp() call: its position, its promises and timers

streamVars == <<abortController, aborted, call, mainWindow, lastAbort>>

mcpVars == <<version, config, attempt, init, clients, serverToEscapedMap,
             escapedToServerMap, tools, toolsCache, op, listed, conns>>

nameVars == <<naming>>

svcVars == <<service, ipcHandlers, registered, managers, run, clock>>

\* What neither the orchestrator nor the manager touches.
chatVars == <<federated, stored>>

appVars == <<cleanupComplete, app, cleanup>>

restVars == <<nameVars, svcVars, chatVars, appVars>>

vars == <<streamVars, mcpVars, restVars>>

Calls == 1..MaxCalls

\* ------------------------------------------------------------------------
\* JavaScript objects
\* ------------------------------------------------------------------------

\* A plain object ({}) is the sequence of its own entries in insertion order,
\* which is the order Object.entries() enumerates them in.
HasOwn(obj, k) == \E i \in 1..Len(obj) : obj[i].key = k

Get(obj, k) == obj[CHOOSE i \in 1..Len(obj) : obj[i].key = k].val

\* obj[k] = v: an existing key keeps its position, a new key goes last.
Put(obj, k, v) ==
    IF HasOwn(obj, k)
    THEN [i \in 1..Len(obj) |->
             IF obj[i].key = k THEN [key |-> k, val |-> v] ELSE obj[i]]
    ELSE Append(obj, [key |-> k, val |-> v])

RECURSIVE PutAll(_, _)
PutAll(obj, entries) ==
    IF entries = <<>> THEN obj
    ELSE PutAll(Put(obj, Head(entries).key, Head(entries).val), Tail(entries))

\* ------------------------------------------------------------------------
\* Response bodies and JSON.parse
\* ------------------------------------------------------------------------

\* The response bodies a provider error carries, as token sequences.
BodyExceeded == <<"{", "exceeded", ":", "true", "}">>
BodyAllowed == <<"{", "exceeded", ":", "false", "}">>
BodyTruncated == <<"{", "exceeded", ":", "true">>
BodyUndefined == <<"undefined">>

Bodies == {BodyExceeded, BodyAllowed, BodyTruncated, BodyUndefined}

\* JSON.parse on a body: the parsed value (the key and its value, the syntax
\* tokens gone) or a SyntaxError.
JSONparse(b) ==
    IF /\ Len(b) = 5
       /\ b[1] = "{" /\ b[3] = ":" /\ b[5] = "}"
       /\ b[4] \in {"true", "false"}
    THEN [threw |-> FALSE, val |-> <<b[2], b[4]>>]
    ELSE [threw |-> TRUE, val |-> <<>>]

\* ------------------------------------------------------------------------
\* Errors the orchestrator can catch
\* ------------------------------------------------------------------------

NoBody == <<>>

ApiError(status, body) ==
    [kind |-> "api", statusCode |-> status, responseBody |-> body,
     message |-> <<>>, statusText |-> <<>>]

PlainError(kind, msg) ==
    [kind |-> kind, statusCode |-> 0, responseBody |-> NoBody, message |-> msg,
     statusText |-> <<>>]

\* A Response that was thrown: it has a statusText and no message.
ResponseError(statusText) ==
    [PlainError("Response", <<>>) EXCEPT !.statusText = statusText]

NoError == PlainError("none", <<>>)
AbortError == PlainError("Error", <<"AbortError">>)
DestroyedError == PlainError("Error", <<"Object has been destroyed">>)

\* The Error initModel fails with.
ModelError == PlainError("Error", <<"No model">>)

StatusCodes == {403, 500}

\* Every shape of error the catch block of stream() tells apart.
AllErrors ==
    {ApiError(s, b) : s \in StatusCodes, b \in Bodies}
      \cup {PlainError("Error", <<"failed">>), AbortError,
            PlainError("string", <<"oops">>),
            ResponseError(<<"Bad Gateway">>),
            PlainError("objmsg", <<"m">>),
            PlainError("object", <<>>)}

\* What a failing step of stream() throws in the model: one error of each
\* branch of the catch block, and two with different parseable bodies.
Errors ==
    {ApiError(403, BodyExceeded), ApiError(403, BodyAllowed),
     ApiError(403, BodyTruncated), ApiError(500, BodyExceeded),
     PlainError("Error", <<"failed">>), PlainError("object", <<>>),
     ResponseError(<<"Bad Gateway">>)}

UnknownMessage == <<"An unknown error occurred">>

\* Mutant of getErrorMessage: a Response is not told apart from other objects.
getErrorMessage_NoResponse(e) ==
    IF e.kind \in {"Error", "string", "objmsg"} THEN e.message
    ELSE <<"An unknown error occurred">>

getErrorMessage(e) ==
    IF e.kind \in {"Error", "string", "objmsg"} THEN e.message
    ELSE IF e.kind = "Response" THEN e.statusText
    ELSE UnknownMessage

\* ------------------------------------------------------------------------
\* Outcomes
\* ------------------------------------------------------------------------

Outcome(settle, type, message, payload) ==
    [settle |-> settle, type |-> type, message |-> message, rateLimitResult |-> payload]

NoOutcome == Outcome("pending", "none", <<>>, <<>>)

\* Mutant of ClassifyInner: the response body is passed on without parsing.
ClassifyInner_RawBody(e) ==
    IF e.kind = "api" /\ e.statusCode # 0
    THEN IF e.statusCode = 403
         THEN Outcome("resolved", "rate-limited", <<>>, e.responseBody)
         ELSE Outcome("resolved", "error", e.responseBody, <<>>)
    ELSE Outcome("resolved", "error", getErrorMessage(e), <<>>)

\* The body of the inner try of stream()'s catch block: what it returns, or
\* that it threw.
ClassifyInner(e) ==
    IF e.kind = "api" /\ e.statusCode # 0
    THEN IF e.statusCode = 403
         THEN LET p == JSONparse(e.responseBody)
              IN IF p.threw
                 THEN Outcome("threw", "none", <<>>, <<>>)
                 ELSE Outcome("resolved", "rate-limited", <<>>, p.val)
         ELSE Outcome("resolved", "error", e.responseBody, <<>>)
    ELSE Outcome("resolved", "error", getErrorMessage(e), <<>>)

\* Mutant of ClassifyError: no inner catch, a throw of the inner try escapes.
ClassifyError_NoInnerCatch(e) == ClassifyInner(e)

\* The whole catch block: the inner catch turns a throw of the inner try into
\* the unknown-error outcome.
ClassifyError(e) ==
    LET r == ClassifyInner(e)
    IN IF r.settle = "threw"
       THEN Outcome("resolved", "error", UnknownMessage, <<>>)
       ELSE r


\* ------------------------------------------------------------------------
\* LlmManager.stream, step by step
\* ------------------------------------------------------------------------

\* An entry of a tool set: a built-in tool of chatToolSet or a federated one.
ChatTool == [source |-> "chat"]

McpTool == [source |-> "mcp"]

\* chatToolSet, the built-in tools (imported from @onlook/ai): two names, the
\* second of which a federated tool may also have.
chatToolSet ==
    << [key |-> <<"r">>, val |-> ChatTool],
       [key |-> <<"s", "-", "t">>, val |-> ChatTool] >>

\* The tool sets the service may hold: none, one name that is also built-in,
\* one that is not, or both.
FederatedToolSets ==
    {<<>>,
     << [key |-> <<"s", "-", "t">>, val |-> McpTool] >>,
     << [key |-> <<"x", "-", "t">>, val |-> McpTool] >>,
     << [key |-> <<"s", "-", "t">>, val |-> McpTool],
        [key |-> <<"x", "-", "t">>, val |-> McpTool] >>}

\* Mutant of Spread: on a name both have, the entry of the first is kept.
Spread_FirstWins(a, b) == PutAll(PutAll(<<>>, b), a)

\* { ...a, ...b }
Spread(a, b) == PutAll(PutAll(<<>>, a), b)

\* What invoking a tool came to: nothing yet, a value or a string returned to
\* the model loop, or an exception thrown into it.
ToolResult(kind, text) == [kind |-> kind, text |-> text]

NoToolResult == ToolResult("none", <<>>)

IdleCall ==
    [pc |-> "idle", signal |-> 0, produced |-> 0, consumed |-> 0,
     forwarded |-> <<>>, provider |-> "idle",
     err |-> NoError, outcome |-> NoOutcome,
     mcpTools |-> <<>>, tools |-> <<>>, toolCalls |-> 0,
     toolResult |-> NoToolResult]

InFlight(c) == call[c].pc \notin {"idle", "done"}

\* Number of cleanUp() calls, one per intercepted before-quit event.
MaxCleanups == 2

Cleanups == 1..MaxCleanups

\* A cleanUp() call that has not been made.
IdleCleanup ==
    [pc |-> "idle", dispose |-> "none", mcpTimer |-> "none",
     timeout |-> "none", stopAll |-> "none"]

\* The main process after setup: cleanupComplete = false, nothing asked the
\* application to quit.
AppStarted ==
    /\ cleanupComplete = FALSE
    /\ app = [state |-> "running", events |-> 0, prevented |-> 0]
    /\ cleanup = [k \in Cleanups |-> IdleCleanup]

\* The orchestrator as its constructor leaves it.
NewLlmManager ==
    /\ abortController = 0
    /\ aborted = {}
    /\ call = [c \in Calls |-> IdleCall]
    /\ mainWindow = "open"
    /\ lastAbort = [called |-> FALSE, ret |-> FALSE, inflight |-> FALSE]

\* The orchestrator beside a service that holds no tool.
StreamInit == NewLlmManager /\ AppStarted /\ federated = <<>>

\* The call returns: its locals (the loop position, the provider's stream and
\* the signal it was given) are gone; what was produced and forwarded is kept.
Returned(r, e, o) ==
    [r EXCEPT !.pc = "done", !.err = e, !.outcome = o,
              !.signal = 0, !.provider = "idle", !.consumed = 0,
              !.mcpTools = <<>>, !.tools = <<>>]

\* Mutant of Caught: the catch block without its finally.
Caught_NoFinally(c, e) ==
    /\ call' = [call EXCEPT ![c] = Returned(@, e, ClassifyError(e))]
    /\ UNCHANGED abortController

\* The catch block of stream(): classify, clear the controller (finally), resolve.
Caught(c, e) ==
    /\ call' = [call EXCEPT ![c] = Returned(@, e, ClassifyError(e))]
    /\ abortController' = 0

\* stream() up to its first await: the controller of the call is stored.
\* Calls are numbered in the order they are made; nothing keeps a call from
\* being made while another one is in flight.
StreamStart(c) ==
    /\ call[c].pc = "idle"
    /\ IF c = 1 THEN TRUE ELSE call[c - 1].pc # "idle"
    /\ abortController' = c
    /\ call' = [call EXCEPT ![c].pc = "initModel"]
    /\ UNCHANGED <<aborted, mainWindow, lastAbort, mcpVars, restVars>>

InitModelOk(c) ==
    /\ call[c].pc = "initModel"
    /\ call' = [call EXCEPT ![c].pc = "getToolSet"]
    /\ UNCHANGED <<abortController, aborted, mainWindow, lastAbort, mcpVars, restVars>>

InitModelFail(c) ==
    /\ call[c].pc = "initModel"
    /\ \E e \in {ModelError, PlainError("object", <<>>)} :
          Caught(c, e)
    /\ UNCHANGED <<aborted, mainWindow, lastAbort, mcpVars, restVars>>

\* Mutant of GetToolSetSettles: without the inner try/catch, a getToolSet()
\* that throws ends the call in the catch block of stream().
GetToolSetSettles_Propagates(c) ==
    /\ call[c].pc = "getToolSet"
    /\ \/ /\ call' = [call EXCEPT ![c].pc = "streamText",
                                   ![c].mcpTools = federated,
                                   ![c].tools = Spread(chatToolSet, federated)]
          /\ UNCHANGED abortController
       \/ Caught(c, PlainError("Error", <<"failed">>))
    /\ UNCHANGED <<aborted, mainWindow, lastAbort, mcpVars, restVars>>

\* await MCPService.getToolSet() inside its own try/catch: whether it returns
\* or throws, stream() goes on to the provider call, with
\* tools = { ...chatToolSet, ...mcpTools }.
GetToolSetSettles(c) ==
    /\ call[c].pc = "getToolSet"
    /\ \E threw \in BOOLEAN :
          LET mcpTools == IF threw THEN <<>> ELSE federated
          IN  call' = [call EXCEPT ![c].pc = "streamText",
                                   ![c].mcpTools = mcpTools,
                                   ![c].tools = Spread(chatToolSet, mcpTools)]
    /\ UNCHANGED <<abortController, aborted, mainWindow, lastAbort, mcpVars, restVars>>

\* streamText(...) is given this.abortController?.signal as it is now.
StreamTextOk(c) ==
    /\ call[c].pc = "streamText"
    /\ call' = [call EXCEPT ![c].pc = "reading", ![c].signal = abortController,
                            ![c].provider = "running"]
    /\ UNCHANGED <<abortController, aborted, mainWindow, lastAbort, mcpVars, restVars>>

StreamTextFail(c) ==
    /\ call[c].pc = "streamText"
    /\ \E e \in Errors : Caught(c, e)
    /\ UNCHANGED <<aborted, mainWindow, lastAbort, mcpVars, restVars>>

\* The provider emits its next partial event (event number produced + 1).
Produce(c) ==
    /\ call[c].provider = "running"
    /\ call[c].produced < MaxEvents
    /\ call' = [call EXCEPT ![c].produced = @ + 1]
    /\ UNCHANGED <<abortController, aborted, mainWindow, lastAbort, mcpVars, restVars>>

\* The provider ends its event sequence.
ProviderEnd(c) ==
    /\ call[c].provider = "running"
    /\ call' = [call EXCEPT ![c].provider = "ended"]
    /\ UNCHANGED <<abortController, aborted, mainWindow, lastAbort, mcpVars, restVars>>

\* The provider fails its event sequence.
ProviderFail(c) ==
    /\ call[c].provider = "running"
    /\ call' = [call EXCEPT ![c].provider = "failed"]
    /\ UNCHANGED <<abortController, aborted, mainWindow, lastAbort, mcpVars, restVars>>

\* The provider notices that the signal it was given is triggered and stops:
\* it ends its event sequence ("stopped"), or fails it with the cancellation
\* error ("cancelled").
ProviderReact(c) ==
    /\ call[c].provider = "running"
    /\ call[c].signal # 0 /\ call[c].signal \in aborted
    /\ \/ call' = [call EXCEPT ![c].provider = "stopped"]
       \/ call' = [call EXCEPT ![c].provider = "cancelled"]
    /\ UNCHANGED <<abortController, aborted, mainWindow, lastAbort, mcpVars, restVars>>

\* The ways a federated tool fails when it is invoked.  A tool of the earlier
\* class goes through callTool(); a tool of the current class is the
\* server's own and fails only in the invocation.
ToolFailures(v) ==
    IF v = "earlier" THEN {"NoClient", "ToolNotFound", "InvocationFailure"}
    ELSE {"InvocationFailure"}

\* execute of an entry of the federated tool set.  The earlier class wraps
\* callTool() in a try/catch that returns `Error: ${message}`; the current
\* class hands out the tool objects of client.tools() as they are.
execute(v, outcome) ==
    IF outcome = "ok" THEN ToolResult("value", <<>>)
    ELSE IF v = "earlier" THEN ToolResult("string", <<"Error: ", outcome>>)
    ELSE ToolResult("thrown", <<outcome>>)

\* The model loop of streamText invokes a federated tool of the set it was
\* given.  What the loop does with a tool that throws is the library's: it
\* goes on, or it fails the event sequence.
ToolCall(c) ==
    /\ call[c].pc = "reading"
    /\ call[c].provider = "running"
    /\ call[c].toolCalls < MaxToolCalls
    /\ \E i \in 1..Len(call[c].tools) :
       \E outcome \in {"ok"} \cup ToolFailures(version) :
       \E goesOn \in BOOLEAN :
          LET result == execute(version, outcome)
          IN  /\ call[c].tools[i].val = McpTool
              /\ result.kind # "thrown" => goesOn
              /\ call' = [call EXCEPT
                     ![c].toolCalls = @ + 1,
                     ![c].toolResult = result,
                     ![c].provider = IF goesOn THEN "running" ELSE "failed"]
    /\ UNCHANGED <<abortController, aborted, mainWindow, lastAbort, mcpVars, restVars>>

\* Mutant of emitMessagePart: the part is put in front of the earlier ones.
emitMessagePart_Reordered(fwd, part) == <<part>> \o fwd

\* emitMessagePart: mainWindow?.webContents.send(CHAT_STREAM_PARTIAL, part).
\* The sequence the display channel has received once the part is sent.
emitMessagePart(fwd, part) == Append(fwd, part)

\* One turn of the for-await loop: the next event is read, emitted, pushed.
Consume(c) ==
    /\ call[c].pc = "reading"
    /\ call[c].consumed < call[c].produced
    /\ call[c].provider \in {"running", "ended", "stopped"}
    /\ LET part == call[c].consumed + 1
       IN \/ /\ mainWindow = "open"
             /\ call' = [call EXCEPT ![c].consumed = part,
                            ![c].forwarded = emitMessagePart(@, part)]
             /\ UNCHANGED abortController
          \/ /\ mainWindow = "null"
             /\ call' = [call EXCEPT ![c].consumed = part]
             /\ UNCHANGED abortController
          \/ /\ mainWindow = "destroyed"
             /\ Caught(c, DestroyedError)
    /\ UNCHANGED <<aborted, mainWindow, lastAbort, mcpVars, restVars>>

\* The loop ends: every event was read and the sequence has ended.
ReadEnd(c) ==
    /\ call[c].pc = "reading"
    /\ call[c].provider \in {"ended", "stopped"}
    /\ call[c].consumed = call[c].produced
    /\ call' = [call EXCEPT ![c].pc = "envelope"]
    /\ UNCHANGED <<abortController, aborted, mainWindow, lastAbort, mcpVars, restVars>>

\* Mutant of ReadFail: a cancelled sequence is taken for one that has ended
\* and the call returns the 'full' envelope.
ReadFail_CancelAsEnd(c) ==
    /\ call[c].pc = "reading"
    /\ \/ /\ call[c].provider = "failed"
          /\ \E e \in Errors :
                /\ call' = [call EXCEPT ![c] = Returned(@, e, ClassifyError(e))]
                /\ abortController' = 0
       \/ /\ call[c].provider = "cancelled"
          /\ call' = [call EXCEPT
                  ![c] = Returned(@, NoError, Outcome("resolved", "full", <<>>, <<>>))]
          /\ UNCHANGED abortController
    /\ UNCHANGED <<aborted, mainWindow, lastAbort, mcpVars, restVars>>

\* Reading throws: the sequence has failed, with one of the provider's errors
\* or, when the provider was cancelled, with the cancellation error (events
\* not read yet are lost).
ReadFail(c) ==
    /\ call[c].pc = "reading"
    /\ \/ /\ call[c].provider = "failed"
          /\ \E e \in Errors : Caught(c, e)
       \/ /\ call[c].provider = "cancelled"
          /\ Caught(c, AbortError)
    /\ UNCHANGED <<aborted, mainWindow, lastAbort, mcpVars, restVars>>

\* return { payload, type: 'full', usage, text }: the catch block is not
\* entered, so its finally does not run.
EnvelopeOk(c) ==
    /\ call[c].pc = "envelope"
    /\ call' = [call EXCEPT
                  ![c] = Returned(@, NoError, Outcome("resolved", "full", <<>>, <<>>))]
    /\ UNCHANGED <<abortController, aborted, mainWindow, lastAbort, mcpVars, restVars>>

\* One of await response / usage / text rejects.
EnvelopeFail(c) ==
    /\ call[c].pc = "envelope"
    /\ \E e \in Errors : Caught(c, e)
    /\ UNCHANGED <<aborted, mainWindow, lastAbort, mcpVars, restVars>>

\* abortStream(). lastAbort records what an observer of the call sees: its
\* return value, and whether a stream() call was in flight at that moment.
AbortStream ==
    LET ret == abortController # 0
    IN /\ aborted' = IF ret THEN aborted \cup {abortController} ELSE aborted
       /\ lastAbort' = [called |-> TRUE, ret |-> ret,
                        inflight |-> \E c \in Calls : InFlight(c)]
       /\ UNCHANGED <<abortController, call, mainWindow, mcpVars, restVars>>

\* window-all-closed: on every platform but darwin the binding is set to null;
\* on darwin it keeps referring to the closed window.
WindowAllClosed ==
    /\ mainWindow = "open"
    /\ \/ mainWindow' = "null"
       \/ mainWindow' = "destroyed"
    /\ UNCHANGED <<abortController, aborted, call, lastAbort, mcpVars, restVars>>

\* activate (darwin): with no window left, initMainWindow creates a new one.
Activate ==
    /\ mainWindow = "destroyed"
    /\ mainWindow' = "open"
    /\ UNCHANGED <<abortController, aborted, call, lastAbort, mcpVars, restVars>>

StreamNext ==
    \/ \E c \in Calls : StreamStart(c)
    \/ \E c \in Calls : InitModelOk(c)
    \/ \E c \in Calls : InitModelFail(c)
    \/ \E c \in Calls : GetToolSetSettles(c)
    \/ \E c \in Calls : StreamTextOk(c)
    \/ \E c \in Calls : StreamTextFail(c)
    \/ \E c \in Calls : Produce(c)
    \/ \E c \in Calls : ProviderEnd(c)
    \/ \E c \in Calls : ProviderFail(c)
    \/ \E c \in Calls : ProviderReact(c)
    \/ \E c \in Calls : Consume(c)
    \/ \E c \in Calls : ReadEnd(c)
    \/ \E c \in Calls : ReadFail(c)
    \/ \E c \in Calls : EnvelopeOk(c)
    \/ \E c \in Calls : EnvelopeFail(c)
    \/ AbortStream
    \/ WindowAllClosed
    \/ Activate

\* The orchestrator with the federated tools in use, while the window stays
\* open and nothing is cancelled.
ChatNext ==
    \/ \E c \in Calls : StreamStart(c)
    \/ \E c \in Calls : InitModelOk(c)
    \/ \E c \in Calls : InitModelFail(c)
    \/ \E c \in Calls : GetToolSetSettles(c)
    \/ \E c \in Calls : StreamTextOk(c)
    \/ \E c \in Calls : StreamTextFail(c)
    \/ \E c \in Calls : Produce(c)
    \/ \E c \in Calls : ProviderEnd(c)
    \/ \E c \in Calls : ProviderFail(c)
    \/ \E c \in Calls : ToolCall(c)
    \/ \E c \in Calls : Consume(c)
    \/ \E c \in Calls : ReadEnd(c)
    \/ \E c \in Calls : ReadFail(c)
    \/ \E c \in Calls : EnvelopeOk(c)
    \/ \E c \in Calls : EnvelopeFail(c)

\* ------------------------------------------------------------------------
\* JavaScript objects and strings used by MCPClientManager
\* ------------------------------------------------------------------------

\* A name every plain object inherits from Object.prototype: reading it from
\* an object that has no own entry of that name yields a function.
Constructor == <<"c", "o", "n", "s", "t", "r", "u", "c", "t", "o", "r">>

ObjectPrototypeKeys == {Constructor}

\* The characters the pattern /[a-zA-Z0-9_]/ matches.
WordChars ==
    {"a", "b", "c", "d", "e", "f", "g", "h", "i", "j", "k", "l", "m",
     "n", "o", "p", "q", "r", "s", "t", "u", "v", "w", "x", "y", "z",
     "A", "B", "C", "D", "E", "F", "G", "H", "I", "J", "K", "L", "M",
     "N", "O", "P", "Q", "R", "S", "T", "U", "V", "W", "X", "Y", "Z",
     "0", "1", "2", "3", "4", "5", "6", "7", "8", "9", "_"}

\* c.charCodeAt(0) for the other characters the model uses.
charCodeAt(c) ==
    CASE c = " " -> 32
      [] c = "-" -> 45
      [] c = "." -> 46
      [] c = "/" -> 47
      [] c = "2" -> 50
      [] c = "@" -> 64
      [] c = "_" -> 95
      [] c = "a" -> 97

HexDigits == <<"0", "1", "2", "3", "4", "5", "6", "7",
               "8", "9", "a", "b", "c", "d", "e", "f">>

\* n.toString(10)
RECURSIVE toString16_Decimal(_)
toString16_Decimal(n) ==
    IF n < 10 THEN <<HexDigits[n + 1]>>
    ELSE toString16_Decimal(n \div 10) \o <<HexDigits[(n % 10) + 1]>>

\* n.toString(16)
RECURSIVE toString16(_)
toString16(n) ==
    IF n < 16 THEN <<HexDigits[n + 1]>>
    ELSE toString16(n \div 16) \o <<HexDigits[(n % 16) + 1]>>

\* An escape that also replaces the underscore.
RECURSIVE escapeServerName_EscapesUnderscore(_)
escapeServerName_EscapesUnderscore(serverName) ==
    IF serverName = <<>> THEN <<>>
    ELSE LET c == Head(serverName)
         IN  (IF c \in WordChars \ {"_"} THEN <<c>>
              ELSE <<"_">> \o toString16(charCodeAt(c)))
             \o escapeServerName_EscapesUnderscore(Tail(serverName))

\* An escape whose marker is the character it replaces.
RECURSIVE escapeServerName_KeepsChar(_)
escapeServerName_KeepsChar(serverName) ==
    IF serverName = <<>> THEN <<>>
    ELSE LET c == Head(serverName)
         IN  (IF c \in WordChars THEN <<c>>
              ELSE <<c>> \o toString16(charCodeAt(c)))
             \o escapeServerName_KeepsChar(Tail(serverName))

RECURSIVE escapeServerName(_)
escapeServerName(serverName) ==
    IF serverName = <<>> THEN <<>>
    ELSE LET c == Head(serverName)
         IN  (IF c \in WordChars THEN <<c>>
              ELSE <<"_">> \o toString16(charCodeAt(c)))
             \o escapeServerName(Tail(serverName))

\* s.split(sep)
RECURSIVE split(_, _)
split(s, sep) ==
    LET hits == {i \in 1..Len(s) : s[i] = sep}
    IN  IF hits = {} THEN <<s>>
        ELSE LET i == CHOOSE j \in hits : \A k \in hits : j <= k
             IN  <<SubSeq(s, 1, i - 1)>> \o split(SubSeq(s, i + 1, Len(s)), sep)

\* parts.join(sep)
RECURSIVE join(_, _)
join(parts, sep) ==
    IF parts = <<>> THEN <<>>
    ELSE IF Len(parts) = 1 THEN parts[1]
    ELSE parts[1] \o <<sep>> \o join(Tail(parts), sep)

\* A parse that takes only the part after the first separator as tool name.
dispatchToolDefinitionName_SecondPart(toolDefinitionName) ==
    LET parts == split(toolDefinitionName, "-")
    IN  <<Head(parts), IF Len(parts) > 1 THEN parts[2] ELSE <<>>>>

dispatchToolDefinitionName(toolDefinitionName) ==
    LET parts == split(toolDefinitionName, "-")
    IN  <<Head(parts), join(Tail(parts), "-")>>

\* `${serverName}-${toolName}`
prefixedName(serverName, toolName) == serverName \o <<"-">> \o toolName

\* ------------------------------------------------------------------------
\* MCPClientManager: configuration and connection pool
\* ------------------------------------------------------------------------

\* The server ids a configuration may hold, in the order of its entries.  The
\* second and the third are different ids with the same escaped id.
ServerNames ==
    << <<"s">>, <<"a", "-", "b">>, <<"a", "_", "2", "d", "b">> >>

\* A server is named by its position in ServerNames, and so is the connection
\* opened for it.
Servers == 1..Len(ServerNames)

escaped(s) == escapeServerName(ServerNames[s])

\* The two MCPClientManager classes of the repository.
Versions == {"current", "earlier"}

\* A descriptor is absent from the configuration, disabled, or enabled with a
\* command (stdio) or with a url (sse).
Descriptors == {"absent", "disabled", "stdio", "sse"}

Configs == [Servers -> Descriptors]

Enabled(cfg) == {s \in Servers : cfg[s] \in {"stdio", "sse"}}

\* The descriptors whose attempt constructs a StdioClientTransport: those with
\* a command in the current class, every enabled one in the earlier class.
Constructs(v, cfg) ==
    IF v = "current" THEN {s \in Servers : cfg[s] = "stdio"} ELSE Enabled(cfg)

\* The entries of the two name mappings for the servers in mapped, in the
\* order of the configuration.
NameEntries(mapped) ==
    SelectSeq([s \in Servers |->
                  [key |-> ServerNames[s], val |-> escaped(s), server |-> s]],
              LAMBDA e : e.server \in mapped)

Forward(entries) ==
    [i \in 1..Len(entries) |-> [key |-> entries[i].key, val |-> entries[i].val]]

Backward(entries) ==
    [i \in 1..Len(entries) |-> [key |-> entries[i].val, val |-> entries[i].key]]

IdleAttempts == [s \in Servers |-> "none"]

\* initializeClients() settles once every attempt has, unless one of the
\* promises given to Promise.all has rejected before.
Settled(att) == \A s \in Servers : att[s] # "pending"

\* Mutant of Skipped: the disabled flag is not looked at.
Skipped_Never(value) == FALSE

\* if (value.disabled) return: the descriptor is skipped before any of its
\* other parameters is read.
Skipped(value) == value = "disabled"

\* create(): the constructor and the synchronous part of initializeClients().
\* Every entry's callback runs to its first await.  A disabled descriptor
\* returns.  In the current class the name mappings are stored first and the
\* transport is constructed inside the try, so a throwing constructor is a
\* failed attempt.  In the earlier class the transport is constructed before
\* createAndConnectClient() stores the mappings and outside any try, so a
\* throwing constructor rejects the callback's promise, and with it
\* Promise.all, as soon as the microtasks run.
InitializeClients ==
    /\ init = "new"
    /\ attempt = IdleAttempts
    /\ \E throws \in SUBSET Constructs(version, config) :
          LET att == [s \in Servers |->
                         CASE config[s] = "absent" -> "none"
                           [] Skipped(config[s]) -> "skipped"
                           [] s \in throws ->
                                IF version = "current" THEN "failed" ELSE "threw"
                           [] OTHER -> "pending"]
              mapped == IF version = "current" THEN Enabled(config)
                        ELSE Enabled(config) \ throws
              entries == NameEntries(mapped)
          IN  /\ attempt' = att
              /\ serverToEscapedMap' = PutAll(<<>>, Forward(entries))
              /\ escapedToServerMap' = PutAll(<<>>, Backward(entries))
              /\ init' = IF \E s \in Servers : att[s] = "threw" THEN "rejected"
                         ELSE IF Settled(att) THEN "resolved"
                         ELSE "pending"
    /\ UNCHANGED <<version, config, clients, tools, toolsCache, op, listed,
                   conns,
                   streamVars, restVars>>

\* The promise of initializeClients() after the attempt of one server settled.
AfterSettle(att) == IF init = "pending" /\ Settled(att) THEN "resolved" ELSE init

\* The connect of server s succeeds: its client is stored under the escaped id.
ConnectOk(s) ==
    /\ attempt[s] = "pending"
    /\ attempt' = [attempt EXCEPT ![s] = "connected"]
    /\ clients' = Put(clients, escaped(s), s)
    /\ conns' = [conns EXCEPT ![s].state = "open"]
    /\ init' = AfterSettle(attempt')
    /\ UNCHANGED <<version, config, serverToEscapedMap, escapedToServerMap,
                   tools, toolsCache, op, listed, streamVars, restVars>>

\* The connect of server s fails: the catch logs the error.
ConnectFail(s) ==
    /\ attempt[s] = "pending"
    /\ attempt' = [attempt EXCEPT ![s] = "failed"]
    /\ init' = AfterSettle(attempt')
    /\ UNCHANGED <<version, config, clients, serverToEscapedMap,
                   escapedToServerMap, tools, toolsCache, op, listed,
                   conns,
                   streamVars, restVars>>

\* ------------------------------------------------------------------------
\* MCPClientManager: the tool catalog and tool calls
\* ------------------------------------------------------------------------

\* Number of operations run on one manager, the listAllTools() call that
\* create() makes through initializeTools() included.
MaxOps == 2

Ops == 1..MaxOps

\* The tool the servers may offer; its name holds the separator.
TheTool == <<"t", "-", "u">>

\* What a server's manifest may hold when it is queried.
Manifests == {<<>>, <<TheTool>>}

\* The answer to a manifest query: none yet, a failure, or the manifest.
Reply(st, names) == [st |-> st, tools |-> names]

Pending == Reply("pending", <<>>)

Replies == {Reply("failed", <<>>)} \cup {Reply("ok", m) : m \in Manifests}

Arguments == {"args1", "args2"}

Payloads == {"payload1", "payload2"}

\* The prefixed names tools are called by: a tool of the first server, a name
\* no server offers, a tool of the servers sharing an escaped id, a server id
\* that is not configured, a name inherited by every object, and a name
\* without separator.
CallNames ==
    {prefixedName(escaped(1), TheTool),
     prefixedName(escaped(1), <<"t">>),
     prefixedName(escaped(2), TheTool),
     prefixedName(<<"x">>, TheTool),
     prefixedName(Constructor, TheTool),
     escaped(1)}

\* What a call returned or threw.
Result(kind, payload) == [kind |-> kind, payload |-> payload]

NoResult == Result("none", "none")

Outcomes == {Result("ok", p) : p \in Payloads} \cup {Result("InvocationFailed", "none")}

\* An invocation of a tool on a connection, and what the server answered.
Invocation(conn, tool, args) ==
    [conn |-> conn, tool |-> tool, args |-> args, outcome |-> NoResult]

NoInvocation == Invocation(0, <<>>, "none")

\* What the listAllTools() call that returned last returned, if one has
\* returned since the manager was made or closed.
Listed(value) == [returned |-> TRUE, value |-> value]

NoList == [returned |-> FALSE, value |-> <<>>]

\* No connection has been opened and no close() has been called on any.
NoConns == [s \in Servers |-> [state |-> "none", closeCalled |-> FALSE]]

IdleOp ==
    [kind |-> "none", pc |-> "idle", name |-> <<>>, args |-> "none",
     client |-> 0, queried |-> <<>>, queries |-> 0, prev |-> NoList,
     value |-> <<>>, invoked |-> NoInvocation, result |-> NoResult]

\* this.clients[key]: the stored connection, -1 for the function every object
\* inherits under that name, 0 for undefined.
clientOf(key) ==
    IF HasOwn(clients, key) THEN Get(clients, key)
    ELSE IF key \in ObjectPrototypeKeys THEN -1
    ELSE 0

\* toolsArrays.flat(): one MCPTool per tool of each answered manifest, tagged
\* with the key the client is stored under.
RECURSIVE flat(_)
flat(queried) ==
    IF queried = <<>> THEN <<>>
    ELSE LET q == Head(queried)
         IN  [n \in 1..Len(q.reply.tools) |->
                 [name |-> q.reply.tools[n], server |-> q.key]]
             \o flat(Tail(queried))

\* Operations start in the order of their numbers; the first one is the
\* listAllTools() of create(), and the manager is handed out after it.
\* The record of a finished operation is dropped when its number is taken
\* by the next one.
MayStart(i) ==
    IF i = 1 THEN op[i].pc = "idle" /\ init = "resolved"
    ELSE /\ op[i].pc \in {"idle", "done"}
         /\ op[1].pc = "done"
         /\ op[i - 1].pc # "idle"

\* A listAllTools() that never takes the stored catalog.
AlreadyFetched_Never == FALSE

\* The test that makes listAllTools() return the stored catalog.
AlreadyFetched == Len(tools) > 0

\* listAllTools() up to its await: the stored catalog is returned, or every
\* entry of this.clients is asked for its manifest.
ListStart(i) ==
    /\ MayStart(i)
    /\ LET started == [IdleOp EXCEPT !.kind = "list", !.prev = listed]
           queried == [n \in 1..Len(clients) |->
                          [key |-> clients[n].key, client |-> clients[n].val,
                           reply |-> Pending]]
       IN  IF AlreadyFetched
           THEN /\ op' = [op EXCEPT ![i] =
                             [started EXCEPT !.pc = "done", !.value = tools]]
                /\ listed' = Listed(tools)
                /\ UNCHANGED tools
           ELSE IF queried = <<>>
           THEN /\ op' = [op EXCEPT ![i] = [started EXCEPT !.pc = "done"]]
                /\ tools' = <<>>
                /\ listed' = Listed(<<>>)
           ELSE /\ op' = [op EXCEPT ![i] =
                             [started EXCEPT !.pc = "waiting",
                                             !.queried = queried,
                                             !.queries = Len(queried)]]
                /\ UNCHANGED <<tools, listed>>
    /\ UNCHANGED <<version, config, attempt, init, clients, serverToEscapedMap,
                   escapedToServerMap, toolsCache, conns,
                   streamVars, restVars>>

\* One manifest query of listAllTools() settles; a failed one counts as an
\* empty manifest.  With the last one the catalog is stored and returned.
ListReply(i, n) ==
    /\ op[i].kind = "list"
    /\ op[i].pc = "waiting"
    /\ n \in 1..Len(op[i].queried)
    /\ op[i].queried[n].reply = Pending
    /\ \E r \in Replies :
          LET queried == [op[i].queried EXCEPT ![n].reply = r]
          IN  IF \E m \in 1..Len(queried) : queried[m].reply = Pending
              THEN /\ op' = [op EXCEPT ![i].queried = queried]
                   /\ UNCHANGED <<tools, listed>>
              ELSE /\ tools' = flat(queried)
                   /\ op' = [op EXCEPT ![i].queried = queried,
                                       ![i].pc = "done",
                                       ![i].value = flat(queried)]
                   /\ listed' = Listed(flat(queried))
    /\ UNCHANGED <<version, config, attempt, init, clients, serverToEscapedMap,
                   escapedToServerMap, toolsCache, conns,
                   streamVars, restVars>>

\* A manifest query getToolSet() has not issued yet.
Unasked == Reply("unasked", <<>>)

\* The tool set getToolSet() builds from the tools it got: one entry per
\* tool under its prefixed name (the earlier class escapes the server key
\* once more), a later tool of the same name replacing an earlier one.
toolSetOf(v, list) ==
    PutAll(<<>>,
           [k \in 1..Len(list) |->
               [key |-> prefixedName(IF v = "earlier"
                                     THEN escapeServerName(list[k].server)
                                     ELSE list[k].server,
                                     list[k].name),
                val |-> list[k]]])

\* getToolSet() up to its first await.  The current class asks the entries
\* of this.clients for their manifests one after the other, whatever
\* this.tools holds; the earlier class calls listAllTools().
ToolSetStart(i) ==
    /\ i > 1
    /\ MayStart(i)
    /\ LET started == [IdleOp EXCEPT !.kind = "toolset", !.prev = listed]
           first == IF version = "current" THEN 1 ELSE Len(clients)
           queried == [n \in 1..Len(clients) |->
                          [key |-> clients[n].key, client |-> clients[n].val,
                           reply |-> IF n <= first THEN Pending ELSE Unasked]]
       IN  IF version = "earlier" /\ AlreadyFetched
           THEN /\ op' = [op EXCEPT ![i] =
                             [started EXCEPT !.pc = "done",
                                             !.value = toolSetOf(version, tools)]]
                /\ listed' = Listed(tools)
                /\ UNCHANGED tools
           ELSE IF queried = <<>>
           THEN /\ op' = [op EXCEPT ![i] = [started EXCEPT !.pc = "done"]]
                /\ tools' = IF version = "earlier" THEN <<>> ELSE tools
                /\ listed' = IF version = "earlier" THEN Listed(<<>>) ELSE listed
           ELSE /\ op' = [op EXCEPT ![i] =
                             [started EXCEPT !.pc = "waiting",
                                             !.queried = queried,
                                             !.queries = first]]
                /\ UNCHANGED <<tools, listed>>
    /\ UNCHANGED <<version, config, attempt, init, clients, serverToEscapedMap,
                   escapedToServerMap, toolsCache, conns,
                   streamVars, restVars>>

\* A manifest query of getToolSet() settles; a failed one contributes
\* nothing.  The current class then asks the next client; after the last
\* reply the tool set is built, from the replies (current) or from the
\* catalog listAllTools() stored (earlier).
ToolSetReply(i, n) ==
    /\ op[i].kind = "toolset"
    /\ op[i].pc = "waiting"
    /\ n \in 1..Len(op[i].queried)
    /\ op[i].queried[n].reply = Pending
    /\ \E r \in Replies :
          LET replied == [op[i].queried EXCEPT ![n].reply = r]
              more == n < Len(replied) /\ replied[n + 1].reply = Unasked
              queried == IF more THEN [replied EXCEPT ![n + 1].reply = Pending]
                         ELSE replied
          IN  IF \E m \in 1..Len(queried) : queried[m].reply = Pending
              THEN /\ op' = [op EXCEPT ![i].queried = queried,
                                       ![i].queries = IF more THEN @ + 1 ELSE @]
                   /\ UNCHANGED <<tools, listed>>
              ELSE /\ op' = [op EXCEPT
                             ![i].queried = queried,
                             ![i].pc = "done",
                             ![i].value = toolSetOf(version, flat(queried))]
                   /\ tools' = IF version = "earlier" THEN flat(queried)
                               ELSE tools
                   /\ listed' = IF version = "earlier" THEN Listed(flat(queried))
                                ELSE listed
    /\ UNCHANGED <<version, config, attempt, init, clients, serverToEscapedMap,
                   escapedToServerMap, toolsCache, conns,
                   streamVars, restVars>>

\* The call throws or returns: result is what its caller gets.
Finished(r, result) == [r EXCEPT !.pc = "done", !.result = result]

\* this.toolsCache[toolDefinitionName] holds a callable.
Cached_Never(toolDefinitionName) == FALSE

Cached(toolDefinitionName) == HasOwn(toolsCache, toolDefinitionName)

\* The call invokes a tool on a connection and waits for the answer.
Invoking(r, conn, tool) ==
    [r EXCEPT !.pc = "executing", !.invoked = Invocation(conn, tool, r.args)]

\* callTool() up to its first await.
CallStart(i, toolDefinitionName, args) ==
    /\ i > 1
    /\ MayStart(i)
    /\ LET parsed == dispatchToolDefinitionName(toolDefinitionName)
           escapedServerName == parsed[1]
           toolName == parsed[2]
           client == clientOf(escapedServerName)
           started == [IdleOp EXCEPT !.kind = "call",
                                    !.name = toolDefinitionName,
                                    !.args = args, !.client = client]
       IN  op' = [op EXCEPT ![i] =
              IF client = 0
              THEN Finished(started, Result("NoClient", "none"))
              ELSE IF version = "earlier"
              THEN \* client.callTool({name, arguments})
                   IF client = -1
                   THEN Finished(started, Result("TypeError", "none"))
                   ELSE Invoking(started, client, toolName)
              ELSE IF Cached(toolDefinitionName)
              THEN LET toolFn == Get(toolsCache, toolDefinitionName)
                   IN  Invoking(started, toolFn.conn, toolFn.tool)
              ELSE IF toolDefinitionName \in ObjectPrototypeKeys
              THEN \* toolFn.execute is not a function
                   Finished(started, Result("TypeError", "none"))
              ELSE IF client = -1
              THEN \* client.tools is not a function
                   Finished(started, Result("TypeError", "none"))
              ELSE [started EXCEPT
                       !.pc = "fetching", !.queries = 1,
                       !.queried = <<[key |-> escapedServerName,
                                      client |-> client, reply |-> Pending]>>]]
    /\ UNCHANGED <<version, config, attempt, init, clients, serverToEscapedMap,
                   escapedToServerMap, tools, toolsCache, listed, conns,
                   streamVars, restVars>>

\* Mutant of CallFetched: the entry of the callable cache is written before
\* the callable is tested.
CallFetched_CachesFirst(i) ==
    /\ op[i].kind = "call"
    /\ op[i].pc = "fetching"
    /\ \E r \in Replies :
          LET toolName == dispatchToolDefinitionName(op[i].name)[2]
              found == \E n \in 1..Len(r.tools) : r.tools[n] = toolName
              answered == [op[i] EXCEPT !.queried[1].reply = r]
              written == Put(toolsCache, op[i].name,
                             [conn |-> op[i].client, tool |-> toolName])
          IN  IF r.st = "failed"
              THEN /\ op' = [op EXCEPT ![i] =
                                Finished(answered, Result("FetchFailed", "none"))]
                   /\ UNCHANGED toolsCache
              ELSE IF ~found
              THEN /\ op' = [op EXCEPT ![i] =
                                Finished(answered, Result("ToolNotFound", "none"))]
                   /\ toolsCache' = written
              ELSE /\ toolsCache' = written
                   /\ op' = [op EXCEPT ![i] =
                                Invoking(answered, op[i].client, toolName)]
    /\ UNCHANGED <<version, config, attempt, init, clients, serverToEscapedMap,
                   escapedToServerMap, tools, listed, conns,
                   streamVars, restVars>>

\* client.tools() of callTool() settles: a failure is rethrown, a manifest
\* without the tool is ToolNotFound, otherwise the callable is cached and
\* executed.
CallFetched(i) ==
    /\ op[i].kind = "call"
    /\ op[i].pc = "fetching"
    /\ \E r \in Replies :
          LET toolName == dispatchToolDefinitionName(op[i].name)[2]
              found == \E n \in 1..Len(r.tools) : r.tools[n] = toolName
              answered == [op[i] EXCEPT !.queried[1].reply = r]
          IN  IF r.st = "failed"
              THEN /\ op' = [op EXCEPT ![i] =
                                Finished(answered, Result("FetchFailed", "none"))]
                   /\ UNCHANGED toolsCache
              ELSE IF ~found
              THEN /\ op' = [op EXCEPT ![i] =
                                Finished(answered, Result("ToolNotFound", "none"))]
                   /\ UNCHANGED toolsCache
              ELSE /\ toolsCache' = Put(toolsCache, op[i].name,
                                        [conn |-> op[i].client, tool |-> toolName])
                   /\ op' = [op EXCEPT ![i] =
                                Invoking(answered, op[i].client, toolName)]
    /\ UNCHANGED <<version, config, attempt, init, clients, serverToEscapedMap,
                   escapedToServerMap, tools, listed, conns,
                   streamVars, restVars>>

\* What callTool() hands to its caller for the outcome of the invocation.
Returns(outcome) == outcome

\* The invocation settles: its result is returned, its failure rethrown.
CallExecuted(i) ==
    /\ op[i].kind = "call"
    /\ op[i].pc = "executing"
    /\ \E outcome \in Outcomes :
          op' = [op EXCEPT ![i] =
                    Finished([@ EXCEPT !.invoked.outcome = outcome],
                             Returns(outcome))]
    /\ UNCHANGED <<version, config, attempt, init, clients, serverToEscapedMap,
                   escapedToServerMap, tools, toolsCache, listed, conns,
                   streamVars, restVars>>

\* Whether the failure of one client.close() escapes close(): each is awaited
\* inside its own try/catch (current class) or has a catch handler attached
\* (earlier class), so none does.
ClosePropagates_Failure(queried) ==
    \E n \in 1..Len(queried) : queried[n].reply.st = "failed"

ClosePropagates(queried) == FALSE

\* What close() does once Promise.all has settled: the pool state is reset
\* and close() returns, or the failure that escaped is thrown and nothing is
\* reset.  The earlier class has no callable cache to reset.
CloseSettled(i, closed) ==
    IF ClosePropagates(closed.queried)
    THEN /\ op' = [op EXCEPT ![i] = Finished(closed, Result("CloseFailed", "none"))]
         /\ UNCHANGED <<clients, tools, toolsCache, serverToEscapedMap,
                        escapedToServerMap, listed>>
    ELSE /\ op' = [op EXCEPT ![i] = Finished(closed, Result("ok", "none"))]
         /\ clients' = <<>>
         /\ tools' = <<>>
         /\ toolsCache' = IF version = "current" THEN <<>> ELSE toolsCache
         /\ serverToEscapedMap' = <<>>
         /\ escapedToServerMap' = <<>>
         /\ listed' = NoList

\* close(): client.close() is called on every entry of this.clients before
\* the await, at which close() is suspended also when there is no entry.
closeCalls(i) ==
    /\ LET started == [IdleOp EXCEPT
                          !.kind = "close",
                          !.queried = [n \in 1..Len(clients) |->
                                          [key |-> clients[n].key,
                                           client |-> clients[n].val,
                                           reply |-> Pending]],
                          !.queries = Len(clients)]
       IN  /\ conns' = [s \in Servers |->
                           IF \E n \in 1..Len(clients) : clients[n].val = s
                           THEN [conns[s] EXCEPT !.closeCalled = TRUE]
                           ELSE conns[s]]
           /\ op' = [op EXCEPT ![i] = [started EXCEPT !.pc = "closing"]]
    /\ UNCHANGED <<version, config, attempt, init, clients, tools, toolsCache,
                   serverToEscapedMap, escapedToServerMap, listed,
                   streamVars, restVars>>

\* close() called while no other operation of the manager is in flight.
CloseStart(i) ==
    /\ i > 1
    /\ MayStart(i)
    /\ closeCalls(i)

\* An operation suspended on a server: listAllTools() or getToolSet() on a
\* manifest query, callTool() on its manifest query or on the invocation.
Suspended(j) == op[j].pc \in {"waiting", "fetching", "executing"}

\* close() called while another operation of the manager is suspended on a
\* server, as dispose() may call it on a manager in use; it takes the number
\* of the finished listAllTools() of create().
CloseOverlapping(i) ==
    /\ i = 1
    /\ op[i].pc = "done"
    /\ \E j \in Ops \ {i} : Suspended(j)
    /\ closeCalls(i)

\* close() of an empty pool resumes after the await of Promise.all([]).
CloseResume(i) ==
    /\ op[i].kind = "close"
    /\ op[i].pc = "closing"
    /\ op[i].queried = <<>>
    /\ CloseSettled(i, op[i])
    /\ UNCHANGED <<version, config, attempt, init, conns, streamVars, restVars>>

\* One client.close() returns or fails; the last one settles Promise.all.
CloseReply(i, n) ==
    /\ op[i].kind = "close"
    /\ op[i].pc = "closing"
    /\ n \in 1..Len(op[i].queried)
    /\ op[i].queried[n].reply = Pending
    /\ \E st \in {"ok", "failed"} :
          LET closed == [op[i] EXCEPT !.queried[n].reply = Reply(st, <<>>)]
              s == op[i].queried[n].client
          IN  /\ conns' = [conns EXCEPT ![s].state =
                              IF st = "ok" THEN "closed" ELSE @]
              /\ IF \A m \in 1..Len(closed.queried) :
                       closed.queried[m].reply # Pending
                 THEN CloseSettled(i, closed)
                 ELSE /\ op' = [op EXCEPT ![i] = closed]
                      /\ UNCHANGED <<clients, tools, toolsCache,
                                     serverToEscapedMap, escapedToServerMap,
                                     listed>>
    /\ UNCHANGED <<version, config, attempt, init, streamVars, restVars>>

\* ------------------------------------------------------------------------
\* The naming scheme applied to one server id and one tool name
\* ------------------------------------------------------------------------

\* Length of the server ids and of the tool names the functions are applied to.
MaxNameLen == 3

MaxToolLen == 3

\* The characters of those server ids: word characters and two others.
NameChars == {"a", "2", "_", "-", "."}

\* The characters of those tool names: a word character and the separator.
ToolChars == {"t", "-"}

\* The strings over an alphabet up to a length.
RECURSIVE Strings(_, _)
Strings(chars, n) ==
    IF n = 0 THEN {<<>>}
    ELSE LET shorter == Strings(chars, n - 1)
         IN  shorter \cup {Append(x, c) : x \in {y \in shorter : Len(y) = n - 1},
                                          c \in chars}

\* A value no function has returned yet.
Unset == <<"unset">>

IdleNaming ==
    [pc |-> "start", serverName |-> <<>>, toolName |-> <<>>,
     escapedName |-> Unset, repeated |-> Unset, reescaped |-> Unset,
     composed |-> Unset, recomposed |-> Unset, parsed |-> <<Unset, Unset>>]

NoNaming == naming = IdleNaming

NamingInit ==
    \E s \in Strings(NameChars, MaxNameLen) :
    \E t \in Strings(ToolChars, MaxToolLen) :
        naming = [IdleNaming EXCEPT !.serverName = s, !.toolName = t]

\* escapeServerName(key), as each connection attempt calls it.
EscapeName ==
    /\ naming.pc = "start"
    /\ naming' = [naming EXCEPT !.pc = "escaped",
                     !.escapedName = escapeServerName(naming.serverName)]
    /\ UNCHANGED <<streamVars, mcpVars, svcVars, chatVars, appVars>>

\* The same call once more.
EscapeRepeat ==
    /\ naming.pc = "escaped"
    /\ naming' = [naming EXCEPT !.pc = "repeated",
                     !.repeated = escapeServerName(naming.serverName)]
    /\ UNCHANGED <<streamVars, mcpVars, svcVars, chatVars, appVars>>

\* escapeServerName(mcpTool.server) of the earlier getToolSet(): the server of
\* a catalog entry is the escaped id its client is stored under.
EscapeEscaped ==
    /\ naming.pc = "repeated"
    /\ naming' = [naming EXCEPT !.pc = "reescaped",
                     !.reescaped = escapeServerName(naming.escapedName)]
    /\ UNCHANGED <<streamVars, mcpVars, svcVars, chatVars, appVars>>

\* The prefixed name of the tool as getToolSet() builds it, from the key of
\* the client in the current class and from the re-escaped server of the
\* catalog entry in the earlier class.
ComposeName ==
    /\ naming.pc = "reescaped"
    /\ naming' = [naming EXCEPT !.pc = "composed",
                     !.composed = prefixedName(naming.escapedName, naming.toolName),
                     !.recomposed = prefixedName(naming.reescaped, naming.toolName)]
    /\ UNCHANGED <<streamVars, mcpVars, svcVars, chatVars, appVars>>

\* dispatchToolDefinitionName(toolDefinitionName), as callTool() calls it.
DispatchName ==
    /\ naming.pc = "composed"
    /\ naming' = [naming EXCEPT !.pc = "parsed",
                     !.parsed = dispatchToolDefinitionName(naming.composed)]
    /\ UNCHANGED <<streamVars, mcpVars, svcVars, chatVars, appVars>>

NamingNext ==
    \/ EscapeName
    \/ EscapeRepeat
    \/ EscapeEscaped
    \/ ComposeName
    \/ DispatchName

\* ------------------------------------------------------------------------
\* MCPService (mcp/service.ts), over managers seen from outside
\* ------------------------------------------------------------------------

\* Number of MCPClientManager instances the service creates.
MaxManagers == 2

\* Number of calls into the service: initialize(), dispose() and requests.
MaxRuns == 2

ManagerIds == 1..MaxManagers

Runs == 1..MaxRuns

Channels == {"mcp:call-tool", "mcp:list-tools", "mcp:refresh-tools"}

\* What PersistentStorage.MCP.read() returns: nothing, a configuration, or one
\* with a null descriptor, reading which makes validateConfig() throw.
StoredConfigs == {"none", "ok", "malformed"}

\* A tool list or tool set: empty, or built by manager `from` out of manifests
\* it queried at time `at`.
NoTools == [some |-> FALSE, from |-> 0, at |-> 0]

Tools(m, at) == [some |-> TRUE, from |-> m, at |-> at]

\* What a manifest query issued by manager m at time `at` may come to.
Fetched(m, at) == {NoTools, Tools(m, at)}

\* The fields of a new MCPService, and what initialize() resets them to when
\* it fails.
ServiceReset ==
    [mcpManager |-> 0, tools |-> NoTools, toolSet |-> NoTools,
     isInitialized |-> FALSE]

\* A manager that has not been constructed: whether its pool holds a
\* connection, whether a connection of its is open, its catalog, when it
\* cached the callable (-1: not cached), whether close() was called on it.
Unmade ==
    [state |-> "unmade", pooled |-> FALSE, open |-> FALSE, tools |-> NoTools,
     cachedAt |-> -1, closeCalled |-> FALSE]

IdleRun ==
    [kind |-> "none", pc |-> "idle", at |-> 0, manager |-> 0, stamp |-> 0,
     result |-> "none", value |-> NoTools, returnedAt |-> 0,
     usedCached |-> -1, caught |-> FALSE, held |-> 0]

\* The service as the constructor leaves it: the three handlers registered.
NewService ==
    /\ service = ServiceReset
    /\ ipcHandlers = Channels
    /\ registered = Channels
    /\ managers = [m \in ManagerIds |-> Unmade]
    /\ run = [r \in Runs |-> IdleRun]
    /\ clock = 0

\* The service variables while no service is considered.
NoService ==
    /\ service = ServiceReset
    /\ ipcHandlers = {}
    /\ registered = {}
    /\ managers = [m \in ManagerIds |-> Unmade]
    /\ run = [r \in Runs |-> IdleRun]
    /\ clock = 0

\* What a call into the service works on: the service, the managers and its
\* own locals.  The operators below run the code from one point to the next
\* await that waits for a server, or to its return.
World(r) ==
    [service |-> service, managers |-> managers, ipcHandlers |-> ipcHandlers,
     registered |-> registered, me |-> run[r]]

Commit(r, w) ==
    /\ w.me.pc # "blocked"
    /\ service' = w.service
    /\ managers' = w.managers
    /\ ipcHandlers' = w.ipcHandlers
    /\ registered' = w.registered
    /\ run' = [run EXCEPT ![r] = w.me]

Leaves(w, result, value, now) ==
    [w EXCEPT !.me.pc = "done", !.me.result = result, !.me.value = value,
              !.me.returnedAt = now]

Awaiting(w, pc, m, now) ==
    [w EXCEPT !.me.pc = pc, !.me.manager = m, !.me.stamp = now]

\* The id of the next manager to construct, 0 when the bound is reached.
NextManager(mgrs) ==
    IF \E m \in ManagerIds : mgrs[m].state = "unmade"
    THEN CHOOSE m \in ManagerIds :
            /\ mgrs[m].state = "unmade"
            /\ \A k \in ManagerIds : mgrs[k].state = "unmade" => m <= k
    ELSE 0

\* manager.close() is called, and manager.close() has reset the manager.
closeCalled(w, m) == [w EXCEPT !.managers[m].closeCalled = TRUE]

closed(w, m, closeFailed) ==
    [w EXCEPT !.managers[m].pooled = FALSE,
              !.managers[m].tools = NoTools,
              !.managers[m].cachedAt = -1,
              !.managers[m].open = @ /\ closeFailed]

\* this.mcpManager.callTool(toolName, args) up to its first await.
managerCallTool(w, now) ==
    LET m == w.service.mcpManager
    IN  IF ~w.managers[m].pooled
        THEN Leaves(w, "threw", NoTools, now)
        ELSE IF version = "earlier"
        THEN Awaiting(w, "execute", m, now)
        ELSE IF w.managers[m].cachedAt >= 0
        THEN [Awaiting(w, "execute", m, now) EXCEPT
                 !.me.usedCached = w.managers[m].cachedAt]
        ELSE Awaiting(w, "fetch", m, now)

\* initialize() returns, to its caller's continuation.
initializeReturns(w, now) ==
    IF w.me.kind \in {"refresh", "list", "getTools"}
    THEN Leaves(w, "returned", w.service.tools, now)
    ELSE IF w.me.kind = "getToolSet"
    THEN Leaves(w, "returned", w.service.toolSet, now)
    ELSE IF w.me.kind = "call"
    THEN IF w.service.mcpManager = 0
         THEN Leaves(w, "threw", NoTools, now)
         ELSE managerCallTool(w, now)
    ELSE Leaves(w, "returned", NoTools, now)

\* The catch block of initialize() without its last four assignments.
catchEnd_NoReset(w, now) == initializeReturns(w, now)

\* The end of the catch block of initialize().
catchEnd(w, now) == initializeReturns([w EXCEPT !.service = ServiceReset], now)

\* The catch block of initialize().
initializeCatch(w, now) ==
    LET m == w.service.mcpManager
        c == [w EXCEPT !.me.caught = TRUE, !.me.held = m]
    IN  IF m = 0 THEN catchEnd(c, now)
        ELSE IF c.managers[m].pooled
        THEN Awaiting(closeCalled(c, m), "catch.close", m, now)
        ELSE catchEnd(closed(closeCalled(c, m), m, FALSE), now)

\* this.toolSet = <the tool set>; this.isInitialized = true.
afterToolSet(w, value, now) ==
    initializeReturns([w EXCEPT !.service.toolSet = value,
                                !.service.isInitialized = TRUE], now)

\* this.tools = <the list>; this.mcpManager.getToolSet() is called on the
\* manager the field holds now.  The current class queries every pooled
\* client, the earlier class goes through listAllTools().
afterList(w, list, now) ==
    LET v == [w EXCEPT !.service.tools = list]
        m == v.service.mcpManager
    IN  IF m = 0 THEN initializeCatch(v, now)
        ELSE IF version = "earlier" /\ v.managers[m].tools.some
        THEN afterToolSet(v, v.managers[m].tools, now)
        ELSE IF v.managers[m].pooled
        THEN Awaiting(v, "toolset", m, now)
        ELSE afterToolSet(v, NoTools, now)

\* this.mcpManager = <the manager create() resolved with>;
\* this.mcpManager.listAllTools() is called.
afterCreate(w, m, now) ==
    LET v == [w EXCEPT !.service.mcpManager = m, !.managers[m].state = "made"]
    IN  IF v.managers[m].tools.some THEN afterList(v, v.managers[m].tools, now)
        ELSE IF v.managers[m].pooled THEN Awaiting(v, "list", m, now)
        ELSE afterList(v, NoTools, now)

\* initialize() from the read of the stored configuration on.
initializeBody(w, cfg, now) ==
    IF cfg = "none" THEN initializeReturns(w, now)
    ELSE IF cfg = "malformed" THEN initializeCatch(w, now)
    ELSE LET m == NextManager(w.managers)
         IN  IF m = 0 THEN [w EXCEPT !.me.pc = "blocked"]
             ELSE Awaiting([w EXCEPT !.managers[m].state = "connecting"],
                           "create", m, now)

\* What dispose() assigns once the manager is closed.
Disposed_KeepsTools(s) == [s EXCEPT !.mcpManager = 0, !.isInitialized = FALSE]

Disposed(s) ==
    [s EXCEPT !.mcpManager = 0, !.tools = NoTools, !.toolSet = NoTools,
              !.isInitialized = FALSE]

\* The end of dispose(); the one initialize() called goes on.
disposeEnd(w, cfg, now) ==
    LET d == [w EXCEPT !.service = Disposed(w.service)]
    IN  IF w.me.kind = "dispose" THEN Leaves(d, "returned", NoTools, now)
        ELSE initializeBody(d, cfg, now)

\* dispose(): every channel of this.ipcHandlers is removed from ipcMain unless
\* removeHandler throws for it, the map is cleared, the manager is closed.
dispose(w, failing, cfg, now) ==
    LET u == [w EXCEPT !.registered = @ \ (w.ipcHandlers \ failing),
                       !.ipcHandlers = {}]
        m == u.service.mcpManager
    IN  IF m = 0 THEN disposeEnd(u, cfg, now)
        ELSE IF u.managers[m].pooled
        THEN Awaiting(closeCalled(u, m), "dispose.close", m, now)
        ELSE disposeEnd(closed(closeCalled(u, m), m, FALSE), cfg, now)

initialize(w, failing, cfg, now) ==
    IF w.service.mcpManager # 0 THEN dispose(w, failing, cfg, now)
    ELSE initializeBody(w, cfg, now)

\* Calls into the service are numbered in the order they are made.
Entered(r, kind) ==
    [World(r) EXCEPT !.me = [IdleRun EXCEPT !.kind = kind, !.at = clock + 1]]

MayEnter(r) ==
    /\ run[r].pc = "idle"
    /\ IF r = 1 THEN TRUE ELSE run[r - 1].pc # "idle"

\* MCPService.initialize(), as the main process calls it at startup.
Initialize(r) ==
    /\ MayEnter(r)
    /\ \E failing \in SUBSET Channels : \E cfg \in StoredConfigs :
          Commit(r, initialize(Entered(r, "initialize"), failing, cfg, clock + 1))
    /\ clock' = clock + 1
    /\ UNCHANGED <<streamVars, mcpVars, nameVars, chatVars, appVars>>

\* MCPService.dispose(), as the main process calls it before quitting.
Dispose(r) ==
    /\ MayEnter(r)
    /\ \E failing \in SUBSET Channels :
          Commit(r, dispose(Entered(r, "dispose"), failing, "none", clock + 1))
    /\ clock' = clock + 1
    /\ UNCHANGED <<streamVars, mcpVars, nameVars, chatVars, appVars>>

\* A refresh-tools request reaches refreshToolsHandler.
Refresh(r) ==
    /\ MayEnter(r)
    /\ "mcp:refresh-tools" \in registered
    /\ \E failing \in SUBSET Channels : \E cfg \in StoredConfigs :
          Commit(r, initialize(Entered(r, "refresh"), failing, cfg, clock + 1))
    /\ clock' = clock + 1
    /\ UNCHANGED <<streamVars, mcpVars, nameVars, chatVars, appVars>>

\* getTools(), getToolSet() and listToolsHandler initialize the service when
\* isInitialized is false, and then return the field as it is.
lazy(w, failing, cfg, now) ==
    IF w.service.isInitialized THEN initializeReturns(w, now)
    ELSE initialize(w, failing, cfg, now)

\* A list-tools request reaches listToolsHandler.
ListTools(r) ==
    /\ MayEnter(r)
    /\ "mcp:list-tools" \in registered
    /\ \E failing \in SUBSET Channels : \E cfg \in StoredConfigs :
          Commit(r, lazy(Entered(r, "list"), failing, cfg, clock + 1))
    /\ clock' = clock + 1
    /\ UNCHANGED <<streamVars, mcpVars, nameVars, chatVars, appVars>>

\* MCPService.getTools().
GetTools(r) ==
    /\ MayEnter(r)
    /\ \E failing \in SUBSET Channels : \E cfg \in StoredConfigs :
          Commit(r, lazy(Entered(r, "getTools"), failing, cfg, clock + 1))
    /\ clock' = clock + 1
    /\ UNCHANGED <<streamVars, mcpVars, nameVars, chatVars, appVars>>

\* MCPService.getToolSet(), as stream() calls it.
GetToolSet(r) ==
    /\ MayEnter(r)
    /\ \E failing \in SUBSET Channels : \E cfg \in StoredConfigs :
          Commit(r, lazy(Entered(r, "getToolSet"), failing, cfg, clock + 1))
    /\ clock' = clock + 1
    /\ UNCHANGED <<streamVars, mcpVars, nameVars, chatVars, appVars>>

\* A call-tool request reaches callToolHandler.
CallTool(r) ==
    /\ MayEnter(r)
    /\ "mcp:call-tool" \in registered
    /\ \E failing \in SUBSET Channels : \E cfg \in StoredConfigs :
          LET w == Entered(r, "call")
          IN  Commit(r, IF service.mcpManager = 0
                        THEN initialize(w, failing, cfg, clock + 1)
                        ELSE managerCallTool(w, clock + 1))
    /\ clock' = clock + 1
    /\ UNCHANGED <<streamVars, mcpVars, nameVars, chatVars, appVars>>

\* The manager.close() that dispose() waits for settles.
DisposeCloseSettles(r) ==
    /\ run[r].pc = "dispose.close"
    /\ \E closeFailed \in BOOLEAN : \E cfg \in StoredConfigs :
          Commit(r, disposeEnd(closed(World(r), run[r].manager, closeFailed),
                               cfg, clock))
    /\ UNCHANGED <<clock, streamVars, mcpVars, nameVars, chatVars, appVars>>

\* The manager.close() that the catch block of initialize() waits for settles.
CatchCloseSettles(r) ==
    /\ run[r].pc = "catch.close"
    /\ \E closeFailed \in BOOLEAN :
          Commit(r, catchEnd(closed(World(r), run[r].manager, closeFailed),
                             clock))
    /\ UNCHANGED <<clock, streamVars, mcpVars, nameVars, chatVars, appVars>>

\* initializeClients() of create() settles: it rejects (earlier class, a
\* transport constructor threw), or every connect has settled, with or
\* without a connection in the pool; then initializeTools() queries the
\* pooled clients.
CreateSettles(r) ==
    /\ run[r].pc = "create"
    /\ LET m == run[r].manager
           w == World(r)
       IN  \E outcome \in {"rejected", "empty", "pooled"} :
              /\ outcome = "rejected" => version = "earlier"
              /\ Commit(r,
                    IF outcome = "rejected"
                    THEN initializeCatch(
                             [w EXCEPT !.managers[m].state = "failed"], clock)
                    ELSE IF outcome = "empty"
                    THEN afterCreate(w, m, clock)
                    ELSE Awaiting([w EXCEPT !.managers[m].pooled = TRUE,
                                            !.managers[m].open = TRUE],
                                  "create.list", m, clock))
    /\ UNCHANGED <<clock, streamVars, mcpVars, nameVars, chatVars, appVars>>

\* The manifest queries of initializeTools() settle and create() resolves.
CreateListed(r) ==
    /\ run[r].pc = "create.list"
    /\ LET m == run[r].manager
       IN  \E list \in Fetched(m, run[r].stamp) :
              Commit(r, afterCreate([World(r) EXCEPT !.managers[m].tools = list],
                                    m, clock))
    /\ UNCHANGED <<clock, streamVars, mcpVars, nameVars, chatVars, appVars>>

\* The manifest queries of the listAllTools() of initialize() settle.
ListSettles(r) ==
    /\ run[r].pc = "list"
    /\ LET m == run[r].manager
       IN  \E list \in Fetched(m, run[r].stamp) :
              Commit(r, afterList([World(r) EXCEPT !.managers[m].tools = list],
                                  list, clock))
    /\ UNCHANGED <<clock, streamVars, mcpVars, nameVars, chatVars, appVars>>

\* The manifest queries of getToolSet() settle; those of the earlier class
\* are the ones of its listAllTools(), which stores the list.
ToolSetSettles(r) ==
    /\ run[r].pc = "toolset"
    /\ LET m == run[r].manager
       IN  \E value \in Fetched(m, run[r].stamp) :
              Commit(r, afterToolSet(
                            IF version = "earlier"
                            THEN [World(r) EXCEPT !.managers[m].tools = value]
                            ELSE World(r),
                            value, clock))
    /\ UNCHANGED <<clock, streamVars, mcpVars, nameVars, chatVars, appVars>>

\* client.tools() of manager.callTool() settles: the callable is cached and
\* executed, or the call fails.
FetchSettles(r) ==
    /\ run[r].pc = "fetch"
    /\ LET m == run[r].manager
       IN  \E found \in BOOLEAN :
              Commit(r, IF found
                        THEN Awaiting([World(r) EXCEPT
                                          !.managers[m].cachedAt = clock],
                                      "execute", m, clock)
                        ELSE Leaves(World(r), "threw", NoTools, clock))
    /\ UNCHANGED <<clock, streamVars, mcpVars, nameVars, chatVars, appVars>>

\* The invocation of the tool settles.
ExecuteSettles(r) ==
    /\ run[r].pc = "execute"
    /\ \E result \in {"returned", "threw"} :
          Commit(r, Leaves(World(r), result, NoTools, clock))
    /\ UNCHANGED <<clock, streamVars, mcpVars, nameVars, chatVars, appVars>>

ServiceNext ==
    \/ \E r \in Runs : Initialize(r)
    \/ \E r \in Runs : Dispose(r)
    \/ \E r \in Runs : Refresh(r)
    \/ \E r \in Runs : CallTool(r)
    \/ \E r \in Runs : ListTools(r)
    \/ \E r \in Runs : GetTools(r)
    \/ \E r \in Runs : GetToolSet(r)
    \/ \E r \in Runs : DisposeCloseSettles(r)
    \/ \E r \in Runs : CatchCloseSettles(r)
    \/ \E r \in Runs : CreateSettles(r)
    \/ \E r \in Runs : CreateListed(r)
    \/ \E r \in Runs : ListSettles(r)
    \/ \E r \in Runs : ToolSetSettles(r)
    \/ \E r \in Runs : FetchSettles(r)
    \/ \E r \in Runs : ExecuteSettles(r)

\* ------------------------------------------------------------------------
\* The quit sequence: cleanUp() and the before-quit handler
\* ------------------------------------------------------------------------

\* The first cleanUp() call not made yet, 0 when the bound is reached.
NextCleanup ==
    IF \E k \in Cleanups : cleanup[k].pc = "idle"
    THEN CHOOSE k \in Cleanups :
            /\ cleanup[k].pc = "idle"
            /\ \A j \in Cleanups : cleanup[j].pc = "idle" => k <= j
    ELSE 0

\* cleanUp() up to its first await: the 10-second timer is set, dispose() is
\* called and raced against the 3-second timer.
cleanUpCalled ==
    [pc |-> "mcp", dispose |-> "pending", mcpTimer |-> "armed",
     timeout |-> "armed", stopAll |-> "none"]

\* Mutant of raceSettled: dispose() awaited without the 3-second timer.
raceSettled_NoTimer(c) == c.dispose = "resolved"

\* Promise.race([MCPService.dispose(), <3-second timer>]) has settled.
raceSettled(c) == c.dispose = "resolved" \/ c.mcpTimer = "fired"

\* Promise.race([Promise.all([<send>, <stopAll>]), timeoutPromise]) has
\* settled.
restSettled(c) == c.stopAll \in {"resolved", "rejected"} \/ c.timeout = "fired"

\* The second part of cleanUp() up to its await.  Both executors run:
\* reading webContents of a destroyed window throws, which rejects the first
\* promise and with it the race, so that the catch ends cleanUp(); otherwise
\* the message is sent, or not, and cleanUp() waits for stopAll() or the
\* 10-second timer.
restStarted(c, window) ==
    [c EXCEPT !.stopAll = "pending",
              !.pc = IF window = "destroyed" THEN "done" ELSE "rest"]

\* cleanUp() runs on from where it waits, as far as what has settled allows.
resumed(c, window) ==
    IF c.pc = "mcp" /\ raceSettled(c) THEN restStarted(c, window)
    ELSE IF c.pc = "rest" /\ restSettled(c) THEN [c EXCEPT !.pc = "done"]
    ELSE c

\* The before-quit handler intercepts the event.
Intercepts == ~cleanupComplete

\* app.quit() called, or a quit asked for by the user: before-quit is
\* emitted; the handler prevents the quit and calls cleanUp(), or lets the
\* application go on quitting.
beforeQuit ==
    IF Intercepts
    THEN /\ NextCleanup # 0
         /\ cleanupComplete' = FALSE
         /\ cleanup' = [cleanup EXCEPT ![NextCleanup] = cleanUpCalled]
         /\ app' = [app EXCEPT !.events = @ + 1, !.prevented = @ + 1]
    ELSE /\ app' = [app EXCEPT !.events = @ + 1, !.state = "quitting"]
         /\ UNCHANGED <<cleanupComplete, cleanup>>

\* One thing cleanUp() number k may wait for has settled, c being its record
\* after that.  When cleanUp() returns, the finally handler sets
\* cleanupComplete and calls app.quit(), whose before-quit event is not
\* intercepted.
settled(k, c) ==
    LET r == resumed(c, mainWindow)
    IN  /\ cleanup' = [cleanup EXCEPT ![k] = r]
        /\ IF cleanup[k].pc # "done" /\ r.pc = "done"
           THEN /\ cleanupComplete' = TRUE
                /\ app' = [app EXCEPT !.events = @ + 1, !.state = "quitting"]
           ELSE UNCHANGED <<cleanupComplete, app>>

\* The user asks the application to quit (menu, Cmd+Q, the system).
QuitRequested ==
    /\ app.state = "running"
    /\ beforeQuit
    /\ UNCHANGED <<streamVars, mcpVars, nameVars, svcVars, chatVars>>

\* window-all-closed: on darwin nothing is done and the binding keeps
\* referring to the closed window; elsewhere the binding is set to null and
\* app.quit() is called.
WindowAllClosedQuits ==
    /\ app.state = "running"
    /\ mainWindow = "open"
    /\ \/ /\ mainWindow' = "destroyed"
          /\ UNCHANGED appVars
       \/ /\ mainWindow' = "null"
          /\ beforeQuit
    /\ UNCHANGED <<abortController, aborted, call, lastAbort, mcpVars,
                   nameVars, svcVars, chatVars>>

\* MCPService.dispose() resolves; it never rejects.
DisposeResolves(k) ==
    /\ app.state # "quit"
    /\ cleanup[k].dispose = "pending"
    /\ settled(k, [cleanup[k] EXCEPT !.dispose = "resolved"])
    /\ UNCHANGED <<streamVars, mcpVars, nameVars, svcVars, chatVars>>

\* The 3-second timer fires.
McpTimerFires(k) ==
    /\ app.state # "quit"
    /\ cleanup[k].mcpTimer = "armed"
    /\ settled(k, [cleanup[k] EXCEPT !.mcpTimer = "fired"])
    /\ UNCHANGED <<streamVars, mcpVars, nameVars, svcVars, chatVars>>

\* runManager.stopAll() resolves or rejects.
StopAllSettles(k) ==
    /\ app.state # "quit"
    /\ cleanup[k].stopAll = "pending"
    /\ \E how \in {"resolved", "rejected"} :
          settled(k, [cleanup[k] EXCEPT !.stopAll = how])
    /\ UNCHANGED <<streamVars, mcpVars, nameVars, svcVars, chatVars>>

\* The 10-second timer fires, after the 3-second timer set with it.
TimeoutFires(k) ==
    /\ app.state # "quit"
    /\ cleanup[k].timeout = "armed"
    /\ cleanup[k].mcpTimer = "fired"
    /\ settled(k, [cleanup[k] EXCEPT !.timeout = "fired"])
    /\ UNCHANGED <<streamVars, mcpVars, nameVars, svcVars, chatVars>>

\* A quit that no handler prevented goes through: the windows are closed and
\* the process ends.
Quits ==
    /\ app.state = "quitting"
    /\ app' = [app EXCEPT !.state = "quit"]
    /\ UNCHANGED <<cleanupComplete, cleanup, streamVars, mcpVars, nameVars,
                   svcVars, chatVars>>

QuitNext ==
    \/ QuitRequested
    \/ WindowAllClosedQuits
    \/ Activate
    \/ \E k \in Cleanups : DisposeResolves(k)
    \/ \E k \in Cleanups : McpTimerFires(k)
    \/ \E k \in Cleanups : StopAllSettles(k)
    \/ \E k \in Cleanups : TimeoutFires(k)
    \/ Quits

\* ------------------------------------------------------------------------
\* Specifications
\* ------------------------------------------------------------------------

\* The state of the variables of the manager model while no manager is
\* considered there, the class in use being v.
Unconstructed(v) ==
    /\ version = v
    /\ config = [s \in Servers |-> "absent"]
    /\ stored = config
    /\ attempt = IdleAttempts
    /\ init = "new"
    /\ clients = <<>>
    /\ serverToEscapedMap = <<>>
    /\ escapedToServerMap = <<>>
    /\ tools = <<>>
    /\ toolsCache = <<>>
    /\ op = [i \in Ops |-> IdleOp]
    /\ listed = NoList
    /\ conns = NoConns

NoManager == Unconstructed("current")

\* The fields of a manager constructed with cfg.
Constructed(cfg) ==
    /\ version \in Versions
    /\ config = cfg
    /\ attempt = IdleAttempts
    /\ init = "new"
    /\ clients = <<>>
    /\ serverToEscapedMap = <<>>
    /\ escapedToServerMap = <<>>
    /\ tools = <<>>
    /\ toolsCache = <<>>
    /\ op = [i \in Ops |-> IdleOp]
    /\ listed = NoList
    /\ conns = NoConns

\* new MCPClientManager(config), for either class and a given configuration.
NewManager(cfg) == Constructed(cfg) /\ stored = cfg

\* The configuration with every server enabled.
AllEnabled == [s \in Servers |-> IF s = 1 THEN "sse" ELSE "stdio"]

\* validateConfig(): a disabled descriptor is kept as it is; an enabled one is
\* kept when it has a command and left out when it has none.
validateConfig(cfg) ==
    [s \in Servers |-> IF cfg[s] = "sse" THEN "absent" ELSE cfg[s]]

PoolInit == StreamInit /\ NoNaming /\ NoService /\ \E cfg \in Configs : NewManager(cfg)

PoolNext ==
    \/ InitializeClients
    \/ \E s \in Servers : ConnectOk(s)
    \/ \E s \in Servers : ConnectFail(s)

\* Initialization of the connection pool, for every configuration.
SpecPool == PoolInit /\ [][PoolNext]_vars

\* MCPService.initialize() up to MCPClientManager.create(): the manager is
\* constructed with the validated copy of the stored configuration.
StartupInit ==
    /\ StreamInit /\ NoNaming /\ NoService
    /\ \E cfg \in Configs : stored = cfg /\ Constructed(validateConfig(cfg))

\* Initialization of the connection pool as the service starts it, for every
\* stored configuration.
SpecStartup == StartupInit /\ [][PoolNext]_vars

ManagerInit == StreamInit /\ NoNaming /\ NoService /\ NewManager(AllEnabled)

ManagerNext ==
    \/ InitializeClients
    \/ \E s \in Servers : ConnectOk(s)
    \/ \E s \in Servers : ConnectFail(s)
    \/ \E i \in Ops : ListStart(i)
    \/ \E i \in Ops : \E n \in Servers : ListReply(i, n)
    \/ \E i \in Ops : ToolSetStart(i)
    \/ \E i \in Ops : \E n \in Servers : ToolSetReply(i, n)
    \/ \E i \in Ops : \E name \in CallNames : \E args \in Arguments :
          CallStart(i, name, args)
    \/ \E i \in Ops : CallFetched(i)
    \/ \E i \in Ops : CallExecuted(i)
    \/ \E i \in Ops : CloseStart(i)
    \/ \E i \in Ops : \E n \in Servers : CloseReply(i, n)
    \/ \E i \in Ops : CloseResume(i)

\* The life of one manager whose configuration enables every server.
SpecManager == ManagerInit /\ [][ManagerNext]_vars

OverlapNext ==
    \/ ManagerNext
    \/ \E i \in Ops : CloseOverlapping(i)

\* One manager whose close() may also be called while another of its
\* operations is suspended.
SpecOverlap == ManagerInit /\ [][OverlapNext]_vars

NamingSpecInit == StreamInit /\ NoManager /\ NoService /\ NamingInit

\* The naming functions applied to every server id and tool name of the
\* bounded sets.
SpecNaming == NamingSpecInit /\ [][NamingNext]_vars

ServiceInit ==
    StreamInit /\ NoNaming /\ NewService /\ \E v \in Versions : Unconstructed(v)

\* The service from its construction on, with either manager class, every
\* call into it overlapping the others in every way.
SpecService == ServiceInit /\ [][ServiceNext]_vars

\* Every close of a connection returns or fails, so that every
\* manager.close() the service waits for settles; nothing is assumed of the
\* other server calls.
FairSpecService ==
    /\ SpecService
    /\ \A r \in Runs :
          /\ WF_vars(DisposeCloseSettles(r))
          /\ WF_vars(CatchCloseSettles(r))

\* The orchestrator alone: no MCP manager has been constructed.
OrchestratorInit == StreamInit /\ NoManager /\ NoNaming /\ NoService

ChatInit ==
    /\ NewLlmManager /\ AppStarted /\ NoNaming /\ NoService
    /\ \E v \in Versions : Unconstructed(v)
    /\ \E f \in FederatedToolSets : federated = f

\* The orchestrator beside a service that holds tools of either manager
\* class.
SpecChat == ChatInit /\ [][ChatNext]_vars

SpecStream == OrchestratorInit /\ [][StreamNext]_vars

QuitInit == StreamInit /\ NoManager /\ NoNaming /\ NoService

\* The main process from the first quit request to the end of the process.
SpecQuit == QuitInit /\ [][QuitNext]_vars

\* Timers that are set fire, and a quit that nothing prevented goes through;
\* nothing makes dispose() or stopAll() settle.
FairSpecQuit ==
    /\ SpecQuit
    /\ \A k \in Cleanups : WF_vars(McpTimerFires(k))
    /\ \A k \in Cleanups : WF_vars(TimeoutFires(k))
    /\ WF_vars(Quits)

\* The continuations of stream() run once what they wait for has settled, and
\* the envelope promises of a provider call that has ended settle.
FairSpecStream ==
    /\ SpecStream
    /\ \A c \in Calls : WF_vars(Consume(c))
    /\ \A c \in Calls : WF_vars(ReadEnd(c))
    /\ \A c \in Calls : WF_vars(ReadFail(c))
    /\ \A c \in Calls : WF_vars(EnvelopeOk(c) \/ EnvelopeFail(c))

\* ------------------------------------------------------------------------
\* Claims about LlmManager
\* ------------------------------------------------------------------------

\* f is a prefix of the sequence of the first n events the provider produced.
IsPrefixOfProduced(f, n) ==
    /\ Len(f) <= n
    /\ \A i \in 1..Len(f) : f[i] = i

AllProduced(n) == [i \in 1..n |-> i]

Completed(c) == call[c].pc = "done" /\ call[c].outcome.type = "full"

C2_AlwaysResolves ==
    /\ [](\A c \in Calls :
            IF call[c].pc = "done"
            THEN /\ call[c].outcome.settle = "resolved"
                 /\ call[c].outcome.type \in {"full", "rate-limited", "error"}
            ELSE call[c].outcome = NoOutcome)
    /\ [][\A c \in Calls :
            call[c].pc = "done" => call'[c].outcome = call[c].outcome]_vars

\* A 403 error whose body does not parse has resolved as Errored.
C2_Witness ==
    \E c \in Calls :
        /\ call[c].pc = "done"
        /\ call[c].err = ApiError(403, BodyTruncated)
        /\ call[c].outcome = Outcome("resolved", "error", UnknownMessage, <<>>)

\* C3: when the call fails with a structured error of status 403 whose body
\* parses, stream() resolves as RateLimited with exactly the parsed body.
C3_RateLimitedPayload ==
    \A c \in Calls :
        (/\ call[c].pc = "done"
         /\ call[c].err.kind = "api"
         /\ call[c].err.statusCode = 403
         /\ ~JSONparse(call[c].err.responseBody).threw)
        => call[c].outcome =
              Outcome("resolved", "rate-limited", <<>>,
                      JSONparse(call[c].err.responseBody).val)

C3_Witness ==
    \E c \in Calls :
        /\ call[c].pc = "done"
        /\ call[c].err = ApiError(403, BodyAllowed)
        /\ call[c].outcome.type = "rate-limited"
        /\ call[c].outcome.rateLimitResult = <<"exceeded", "false">>

\* The provider of call c has reacted to its triggered token.
Reacted(c) == call[c].provider \in {"stopped", "cancelled"}

C5_AbortFalseWhenIdle ==
    (lastAbort.called /\ ~lastAbort.inflight) => ~lastAbort.ret

\* ------------------------------------------------------------------------
\* Claims about MCPClientManager
\* ------------------------------------------------------------------------

Connected == {s \in Servers : attempt[s] = "connected"}

\* The connections this.clients holds.
Pooled == {clients[n].val : n \in 1..Len(clients)}

\* C6: once every attempt of initializeClients() has settled, none of them by
\* a throwing transport constructor of the earlier class, initialization has
\* resolved and the pool holds exactly one entry per server whose connect
\* succeeded, that server's own connection under its escaped id, and none for
\* a server whose attempt failed.
C6_OneEntryPerConnected ==
    (/\ init # "new"
     /\ Settled(attempt)
     /\ \A s \in Servers : attempt[s] # "threw")
    => /\ init = "resolved"
       /\ Len(clients) = Cardinality(Connected)
       /\ Pooled = Connected
       /\ \A s \in Connected : clientOf(escaped(s)) = s

\* C7: initializeClients() settles, resolved or rejected, only after every
\* connection attempt has settled, whatever failed in a sibling attempt.
C7_CompletesAfterAllSettle ==
    init \in {"resolved", "rejected"} => Settled(attempt)

ListDone(j) == op[j].kind = "list" /\ op[j].pc = "done"

\* C8 as stated: a listAllTools() call that follows a returned one returns the
\* same sequence and queries no server, whatever the earlier call returned.
C8_SecondListIdentical ==
    \A j \in Ops :
        (ListDone(j) /\ op[j].prev.returned)
        => /\ op[j].value = op[j].prev.value
           /\ op[j].queries = 0

\* C8 amended: a listAllTools() call that follows one which returned a
\* non-empty sequence returns that same sequence and queries no server.
C8_CachedCatalogReused ==
    \A j \in Ops :
        (/\ ListDone(j)
         /\ op[j].prev.returned
         /\ op[j].prev.value # <<>>)
        => /\ op[j].value = op[j].prev.value
           /\ op[j].queries = 0

C8_Witness ==
    \E j \in Ops :
        /\ ListDone(j)
        /\ op[j].prev.returned
        /\ op[j].prev.value # <<>>
        /\ op[j].value = op[j].prev.value

CallDone(i) == op[i].kind = "call" /\ op[i].pc = "done"

\* C9: in the current class a finished callTool() whose name did not start
\* with the escaped id of a connection pooled when it was called (the lookup
\* in this.clients found no entry of its own) failed with NoClient, one whose
\* server answered the manifest query without the named tool failed with
\* ToolNotFound, and neither invoked a tool.
C9_NoClientOrToolNotFound ==
    \A i \in Ops :
        (CallDone(i) /\ version = "current")
        => LET parsed == dispatchToolDefinitionName(op[i].name)
               asked == op[i].queried # <<>>
           IN  /\ op[i].client <= 0
                  => /\ op[i].result.kind = "NoClient"
                     /\ op[i].invoked = NoInvocation
               /\ (/\ op[i].client > 0
                   /\ asked
                   /\ op[i].queried[1].reply.st = "ok"
                   /\ \A n \in 1..Len(op[i].queried[1].reply.tools) :
                         op[i].queried[1].reply.tools[n] # parsed[2])
                  => /\ op[i].result.kind = "ToolNotFound"
                     /\ op[i].invoked = NoInvocation

\* C10: a finished callTool(compose(s, t), args) for a server s whose connect
\* succeeded, made while the pool held a connection under the escaped id of s,
\* and a tool t that was found invoked t with args on the connection opened
\* for s and handed the outcome of that invocation to its caller.
C10_InvokesOnOwnConnection ==
    \A i \in Ops : \A s \in Connected :
        (/\ CallDone(i)
         /\ op[i].name = prefixedName(escaped(s), TheTool)
         /\ op[i].client > 0
         /\ op[i].result.kind \notin {"ToolNotFound", "FetchFailed"})
        => /\ op[i].invoked.conn = s
           /\ op[i].invoked.tool = TheTool
           /\ op[i].invoked.args = op[i].args
           /\ op[i].invoked.outcome \in Outcomes
           /\ op[i].result = op[i].invoked.outcome

\* ------------------------------------------------------------------------
\* Claims about the naming scheme
\* ------------------------------------------------------------------------

Occurrences(s, c) == Cardinality({i \in 1..Len(s) : s[i] = c})

\* C11: decomposing the composed name escape(s) + '-' + t yields the pair
\* (escape(s), t), also for a tool name t that holds the separator.
C11_RoundTrip ==
    naming.pc = "parsed"
    => naming.parsed = <<escapeServerName(naming.serverName), naming.toolName>>

C11_Witness ==
    /\ naming.pc = "parsed"
    /\ Occurrences(naming.toolName, "-") >= 2
    /\ Occurrences(naming.serverName, "-") >= 1
    /\ naming.parsed[2] = naming.toolName

\* The identifiers the pattern /[a-zA-Z0-9_]/ matches throughout.
OnlyWordChars(s) == \A i \in 1..Len(s) : s[i] \in WordChars

\* C12: escapeServerName returns an identifier made only of characters in
\* [A-Za-z0-9_], the empty one included, unchanged.
C12_WordIdentifierUnchanged ==
    (naming.pc # "start" /\ OnlyWordChars(naming.serverName))
    => naming.escapedName = naming.serverName

C12_Witness ==
    /\ naming.pc # "start"
    /\ naming.serverName = <<"a", "_", "2">>
    /\ naming.escapedName = naming.serverName

\* What the claim says each character becomes: itself, or '_' and its
\* hexadecimal code.
Replacement(c) ==
    CASE c = "-" -> <<"_", "2", "d">>
      [] c = "." -> <<"_", "2", "e">>
      [] OTHER -> <<c>>

RECURSIVE Replaced(_)
Replaced(s) == IF s = <<>> THEN <<>> ELSE Replacement(Head(s)) \o Replaced(Tail(s))

\* C13: the result of escapeServerName consists only of characters in
\* [A-Za-z0-9_], every other character being replaced by '_' and its
\* hexadecimal code, so it never holds the separator '-'.
C13_EscapedHasOnlyWordChars ==
    naming.pc # "start"
    => /\ OnlyWordChars(naming.escapedName)
       /\ Occurrences(naming.escapedName, "-") = 0
       /\ naming.escapedName = Replaced(naming.serverName)

C13_Witness ==
    /\ naming.pc # "start"
    /\ naming.serverName = <<"-", "a", ".">>
    /\ naming.escapedName = <<"_", "2", "d", "a", "_", "2", "e">>

\* C14: escapeServerName returns the same result when called again, escaping
\* an escaped id returns it unchanged, and so does the prefixed name composed
\* from the re-escaped id.
C14_EscapeIdempotent ==
    /\ naming.pc \in {"repeated", "reescaped", "composed", "parsed"}
       => naming.repeated = naming.escapedName
    /\ naming.pc \in {"reescaped", "composed", "parsed"}
       => naming.reescaped = naming.escapedName
    /\ naming.pc \in {"composed", "parsed"}
       => naming.recomposed = naming.composed

C14_Witness ==
    /\ naming.pc = "composed"
    /\ Occurrences(naming.serverName, "-") >= 1
    /\ naming.escapedName # naming.serverName
    /\ naming.recomposed = naming.composed

\* ------------------------------------------------------------------------
\* Claims about the name mappings and about teardown
\* ------------------------------------------------------------------------

\* The raw server ids serverToEscapedMap has an entry for.
MappedNames == {serverToEscapedMap[n].key : n \in 1..Len(serverToEscapedMap)}

\* C15: the name mappings built by initializeClients() are a bijection:
\* distinct mapped raw server ids have distinct escaped ids, and
\* escapedToServerMap[serverToEscapedMap[s]] = s for every mapped raw id s.
C15_NameMappingBijective ==
    /\ \A x \in MappedNames : \A y \in MappedNames :
          x # y => Get(serverToEscapedMap, x) # Get(serverToEscapedMap, y)
    /\ \A x \in MappedNames :
          /\ HasOwn(escapedToServerMap, Get(serverToEscapedMap, x))
          /\ Get(escapedToServerMap, Get(serverToEscapedMap, x)) = x

\* A step in which close() number i returns or throws.
CloseReturns(i) ==
    /\ op[i].kind = "close"
    /\ op[i].pc = "closing"
    /\ op'[i].pc = "done"

\* A step in which close() number i is called.
CloseStarts(i) ==
    /\ op[i].pc \in {"idle", "done"}
    /\ op'[i].pc = "closing"

\* C16: when close() is called, client.close() is called on every connection
\* the pool holds; whenever a close() settles it returns without a failure,
\* whichever of those calls failed, and the connection map, the tool catalog,
\* the callable cache and both name mappings are empty.
C16_CloseResetsPool ==
    [][\A i \in Ops :
          /\ CloseStarts(i)
             => /\ \A n \in 1..Len(clients) :
                      conns'[clients[n].val].closeCalled
                /\ Len(op'[i].queried) = Len(clients)
          /\ CloseReturns(i)
             => /\ op'[i].result = Result("ok", "none")
                /\ clients' = <<>>
                /\ tools' = <<>>
                /\ toolsCache' = <<>>
                /\ serverToEscapedMap' = <<>>
                /\ escapedToServerMap' = <<>>]_vars

\* A close() of two connections has returned although one of the two closes
\* failed, and the pool is empty.
C16_Witness ==
    \E i \in Ops :
        /\ op[i].kind = "close"
        /\ op[i].pc = "done"
        /\ op[i].result = Result("ok", "none")
        /\ \E n, m \in 1..Len(op[i].queried) :
              /\ op[i].queried[n].reply.st = "failed"
              /\ op[i].queried[m].reply.st = "ok"
        /\ clients = <<>>
        /\ tools = <<>>
        /\ serverToEscapedMap = <<>>

\* A step in which callTool() number i is called.
CallStarts(i) ==
    /\ op[i].pc \in {"idle", "done"}
    /\ op'[i].kind = "call"
    /\ op'[i] # op[i]

\* A step in which callTool() number i returns or throws.
CallReturns(i) ==
    /\ op[i].kind = "call"
    /\ op[i].pc \in {"fetching", "executing"}
    /\ op'[i].pc = "done"

\* C18: in the current class (1) a callable enters the cache only when a
\* callTool() of that name has queried one manifest and found the tool in it;
\* (2) a callTool(p) called while p is cached and no close() has been called
\* on the cached callable's connection queries no manifest and invokes the
\* cached callable with its arguments; (3) a cached callable leaves the cache
\* only when a close() returns, so not when an invocation fails; (4) a
\* callTool() that fails with ToolNotFound leaves the cache as it was.
C18_CallableCachedUntilClose ==
    [][version = "current" =>
        /\ \A p \in CallNames :
              (~HasOwn(toolsCache, p) /\ HasOwn(toolsCache', p))
              => \E i \in Ops :
                    /\ op[i].kind = "call" /\ op[i].pc = "fetching"
                    /\ op[i].name = p
                    /\ op'[i].queries = 1
                    /\ op'[i].queried[1].reply.st = "ok"
                    /\ op'[i].invoked.conn = op[i].queried[1].client
                    /\ Get(toolsCache', p) =
                          [conn |-> op'[i].invoked.conn,
                           tool |-> op'[i].invoked.tool]
        /\ \A i \in Ops : \A p \in CallNames :
              (/\ CallStarts(i)
               /\ op'[i].name = p
               /\ HasOwn(toolsCache, p)
               /\ ~conns[Get(toolsCache, p).conn].closeCalled)
              => /\ op'[i].queries = 0
                 /\ op'[i].pc = "executing"
                 /\ op'[i].invoked =
                       Invocation(Get(toolsCache, p).conn,
                                  Get(toolsCache, p).tool, op'[i].args)
        /\ \A p \in CallNames :
              HasOwn(toolsCache, p)
              => \/ /\ HasOwn(toolsCache', p)
                    /\ Get(toolsCache', p) = Get(toolsCache, p)
                 \/ \E i \in Ops : CloseReturns(i)
        /\ \A i \in Ops :
              (CallReturns(i)
               /\ op'[i].result.kind \in {"ToolNotFound", "InvocationFailed"})
              => toolsCache' = toolsCache]_vars

\* A callTool() of a cached name has invoked the cached callable without a
\* manifest query, and that invocation failed; the callable is still cached.
C18_Witness ==
    \E i \in Ops :
        /\ version = "current"
        /\ CallDone(i)
        /\ op[i].queries = 0
        /\ op[i].invoked.conn > 0
        /\ op[i].result.kind = "InvocationFailed"
        /\ HasOwn(toolsCache, op[i].name)

\* The number of tools in the manifests that answered.
RECURSIVE Answered(_)
Answered(queried) ==
    IF queried = <<>> THEN 0
    ELSE (IF Head(queried).reply.st = "ok"
          THEN Len(Head(queried).reply.tools) ELSE 0)
         + Answered(Tail(queried))

\* C19: a finished listAllTools() that fetched has queried every server whose
\* connect succeeded, and the catalog it returned holds exactly the tools of
\* the manifests that answered, each tagged with the escaped id of its
\* server, a failed query contributing nothing; it raised no exception.
C19_ListQueriesEveryConnected ==
    \A j \in Ops :
        (ListDone(j) /\ op[j].queries > 0)
        => LET queried == op[j].queried
               value == op[j].value
           IN  /\ \A s \in Connected :
                     \E n \in 1..Len(queried) :
                        /\ queried[n].client = s
                        /\ queried[n].key = escaped(s)
               /\ \A n \in 1..Len(queried) :
                     /\ queried[n].reply # Pending
                     /\ queried[n].reply.st = "ok"
                        => \A m \in 1..Len(queried[n].reply.tools) :
                              \E k \in 1..Len(value) :
                                 value[k] = [name |-> queried[n].reply.tools[m],
                                             server |-> queried[n].key]
               /\ \A k \in 1..Len(value) :
                     \E n \in 1..Len(queried) :
                        /\ queried[n].reply.st = "ok"
                        /\ value[k].server = queried[n].key
                        /\ \E m \in 1..Len(queried[n].reply.tools) :
                              value[k].name = queried[n].reply.tools[m]
               /\ Len(value) = Answered(queried)
               /\ op[j].result = NoResult

\* ------------------------------------------------------------------------
\* Claims about MCPService
\* ------------------------------------------------------------------------

\* A step in which the dispose() call number r returns or throws.
DisposeLeaves(r) ==
    /\ run'[r].kind = "dispose"
    /\ run[r].pc # "done"
    /\ run'[r].pc = "done"

\* C17: when every close of a connection returns or fails, every dispose()
\* call terminates; it never throws, whichever handler removals and closes
\* failed, and when it returns the service holds no manager, an empty tool
\* list, an empty tool set and isInitialized = false.
C17_DisposeAlwaysCompletes ==
    /\ [][\A r \in Runs :
             DisposeLeaves(r)
             => /\ run'[r].result = "returned"
                /\ service'.mcpManager = 0
                /\ service'.tools = NoTools
                /\ service'.toolSet = NoTools
                /\ service'.isInitialized = FALSE]_vars
    /\ \A r \in Runs :
          (run[r].kind = "dispose") ~> (run[r].pc = "done")

\* A dispose() has returned after waiting for the close of a manager whose
\* tools the service held; a close of a connection failed, and so did the
\* removal of a handler.
C17_Witness ==
    \E r \in Runs :
        /\ run[r].kind = "dispose"
        /\ run[r].pc = "done"
        /\ run[r].manager # 0
        /\ managers[run[r].manager].open
        /\ managers[run[r].manager].closeCalled
        /\ registered # {}
        /\ service = ServiceReset

\* A refresh-tools request has been answered with a tool list.
RefreshDone(r) ==
    /\ run[r].kind = "refresh"
    /\ run[r].pc = "done"
    /\ run[r].result = "returned"

\* C20: the tool list a refresh-tools request returns is built from manifests
\* queried after the request was received, and a tool call made after a
\* refresh has returned uses no callable that was cached before that refresh
\* was requested.
C20_RefreshRefetches ==
    \A r \in Runs :
        RefreshDone(r)
        => /\ run[r].value.some => run[r].value.at >= run[r].at
           /\ \A c \in Runs :
                 (/\ run[c].kind = "call"
                  /\ run[c].at > run[r].returnedAt
                  /\ run[c].usedCached >= 0)
                 => run[c].usedCached >= run[r].at

\* C21: as long as the application has not been torn down (dispose() has not
\* been called by the main process), the three request handlers stay
\* registered, whatever list-tools, refresh-tools and call-tool requests and
\* initialize() calls were made.
C21_HandlersStayRegistered ==
    (\A r \in Runs : run[r].kind # "dispose") => registered = Channels

\* Manager m has open connections, close() was never called on it, it is not
\* the service's manager and no call in flight holds it.
Unreachable(m) ==
    /\ managers[m].open
    /\ ~managers[m].closeCalled
    /\ service.mcpManager # m
    /\ \A r \in Runs : run[r].pc \in {"idle", "done"} \/ run[r].manager # m

\* C30: whatever the interleaving of the initialize() calls made at startup,
\* by the request handlers and by getTools(), getToolSet() and callTool(),
\* every manager that was created is the service's current manager or has
\* been closed: no manager with open connections becomes unreachable.
C30_NoManagerUnreachable ==
    (\A r \in Runs : run[r].kind # "dispose")
    => \A m \in ManagerIds : ~Unreachable(m)

\* ------------------------------------------------------------------------
\* Claims about the tools stream() passes on
\* ------------------------------------------------------------------------

\* The names of a tool set.
ToolNames(set) == {set[i].key : i \in 1..Len(set)}

\* stream() has built the tool set it passes to streamText.
HasTools(c) == call[c].pc \in {"streamText", "reading", "envelope"}

\* C22: the tool set stream() passes to the model is the union of the
\* built-in tool set and the federated tool set it obtained; a name present in
\* both has the federated entry, a name present in one has that one's entry.
C22_ToolSetIsUnionFederatedWins ==
    \A c \in Calls :
        HasTools(c)
        => /\ ToolNames(call[c].tools)
                 = ToolNames(chatToolSet) \cup ToolNames(call[c].mcpTools)
           /\ \A k \in ToolNames(call[c].mcpTools) :
                 Get(call[c].tools, k) = Get(call[c].mcpTools, k)
           /\ \A k \in ToolNames(chatToolSet) \ ToolNames(call[c].mcpTools) :
                 Get(call[c].tools, k) = Get(chatToolSet, k)

\* A call passes on a federated set with a name that is also built-in and
\* one that is not.
C22_Witness ==
    \E c \in Calls :
        /\ HasTools(c)
        /\ ToolNames(call[c].mcpTools) \cap ToolNames(chatToolSet) # {}
        /\ ToolNames(call[c].mcpTools) \ ToolNames(chatToolSet) # {}
        /\ ToolNames(chatToolSet) \ ToolNames(call[c].mcpTools) # {}

\* C23: a federated tool that fails while a stream is running is caught where
\* the call is routed: the model loop gets a value or an error string as the
\* tool's result, never an exception, so the failure cannot end the
\* surrounding stream() call.
C23_ToolFailureIsReturnedAsString ==
    \A c \in Calls :
        call[c].toolCalls > 0 => call[c].toolResult.kind \in {"value", "string"}

\* C24: a stream() call whose model client cannot be resolved is the only one
\* to fail: it resolves as Errored with a message, having forwarded no
\* partial event and invoked no federated tool; the cancellation token is
\* cleared, no other call is touched and the rest of the orchestrator is as
\* it was, so that a following stream() call proceeds as the first one.
C24_InitModelFailureFatalToCallOnly ==
    [][\A c \in Calls :
          (call[c].pc = "initModel" /\ call'[c].pc = "done")
          => /\ call'[c].outcome.settle = "resolved"
             /\ call'[c].outcome.type = "error"
             /\ call'[c].outcome.message = getErrorMessage(call'[c].err)
             /\ call'[c].outcome.message # <<>>
             /\ call'[c].forwarded = <<>>
             /\ call'[c].produced = 0
             /\ call'[c].toolCalls = 0
             /\ abortController' = 0
             /\ \A d \in Calls \ {c} : call'[d] = call[d]
             /\ UNCHANGED <<aborted, mainWindow, federated>>
             /\ (c < MaxCalls /\ call[c + 1].pc = "idle")
                   => call'[c + 1] = IdleCall]_vars

\* A call failed in initModel, and the following call ran to the full
\* envelope with events forwarded and a federated tool invoked.
C24_Witness ==
    \E c \in Calls \ {MaxCalls} :
        /\ call[c].pc = "done"
        /\ call[c].err = ModelError
        /\ call[c].outcome.type = "error"
        /\ call[c + 1].pc = "done"
        /\ call[c + 1].outcome.type = "full"
        /\ call[c + 1].forwarded # <<>>
        /\ call[c + 1].toolCalls > 0

\* stream() call c has resolved from its catch block.
Failed(c) == call[c].pc = "done" /\ call[c].err # NoError

\* The messages the claim allows for an error without a structured status
\* code: the error's message, the string itself, or the unknown-error text.
NamedMessages(e) ==
    {UnknownMessage}
      \cup (IF e.kind \in {"Error", "objmsg", "string"} THEN {e.message} ELSE {})

\* The classification by the structured status, the message of an error
\* without one being drawn from `messages`.
ClassifiedByStatus(c, messages) ==
    LET e == call[c].err
        o == call[c].outcome
    IN  /\ e.statusCode \notin {0, 403}
           => o.type = "error" /\ o.message = e.responseBody
        /\ e.statusCode = 0 => o.type = "error" /\ o.message \in messages
        /\ o.type = "rate-limited" => e.statusCode = 403

C26_DisabledIsSkipped ==
    \A s \in Servers :
        stored[s] = "disabled"
        => /\ attempt[s] \in {"none", "skipped"}
           /\ conns[s].state = "none"
           /\ s \notin Pooled

\* A configuration with a disabled descriptor was initialized, and another
\* server of it is in the pool.
C26_Witness ==
    /\ init = "resolved"
    /\ \E s \in Servers : stored[s] = "disabled" /\ attempt[s] = "skipped"
    /\ Pooled # {}

\* C27: once the service has started the initialization of the pool, a
\* connection has been attempted for every enabled descriptor of the stored
\* configuration, command-based or URL-based.
C27_EveryEnabledIsAttempted ==
    init # "new"
    => \A s \in Enabled(stored) : attempt[s] \notin {"none", "skipped"}

QueryIssued(i) ==
    /\ op'[i].kind \in {"list", "toolset"}
    /\ op'[i].pc = "waiting"
    /\ op[i].pc # "waiting" \/ op'[i].queries > op[i].queries

\* C29: while a non-empty catalog is cached, neither listAllTools() nor
\* getToolSet() queries the manifest of a server.
C29_NoQueryOnceCached ==
    [][\A i \in Ops : QueryIssued(i) => tools = <<>>]_vars

\* ------------------------------------------------------------------------
\* Claims about teardown and the consistency of the service
\* ------------------------------------------------------------------------

\* dispose() call d has completed, and every other call into the service was
\* made before it completed.
DisposedLast(d) ==
    /\ run[d].kind = "dispose"
    /\ run[d].pc = "done"
    /\ \A r \in Runs \ {d} : run[r].pc # "idle" => run[r].at <= run[d].returnedAt

\* C31: once dispose() has completed and no initialize() is started
\* afterwards, the service holds no manager, and no manager keeps an open
\* connection that close() was never called on, also when an initialize()
\* was suspended while dispose() ran.
C31_NothingLeftAfterDispose ==
    \A d \in Runs :
        DisposedLast(d)
        => /\ service.mcpManager = 0
           /\ \A m \in ManagerIds :
                 managers[m].open => managers[m].closeCalled

\* C32: in every reachable state of the service, isInitialized = true implies
\* that a manager is held, and mcpManager = null implies that the cached tool
\* list and tool set are empty.
C32_InitializedHoldsManager ==
    /\ service.isInitialized => service.mcpManager # 0
    /\ service.mcpManager = 0
          => service.tools = NoTools /\ service.toolSet = NoTools

\* Connection s is established and client.close() was not called on it.
Unclosed(s) == conns[s].state = "open" /\ ~conns[s].closeCalled

\* C33: every connection the manager established, and has not called close
\* on, is an entry of its connection map; so after a close() has completed,
\* which empties the map, no established connection is left without its close.
C33_EstablishedStaysReachable ==
    \A s \in Servers :
        Unclosed(s) => \E n \in 1..Len(clients) : clients[n].val = s

\* The state the claim excludes, after close(): a close() has returned and an
\* established connection was never closed.
C33_LeftOpenAfterClose ==
    \E i \in Ops :
        /\ op[i].kind = "close"
        /\ op[i].pc = "done"
        /\ \E s \in Servers : Unclosed(s)

\* C34: every stream() call in flight is the call whose controller
\* abortStream() would trigger, so that abortStream() returns true and
\* cancels the token handed to that call's provider invocation.
C34_InFlightIsCancellable ==
    \A c \in Calls : InFlight(c) => abortController = c

\* Run r settles in this step.
Settles(r) == run[r].pc # "done" /\ run'[r].pc = "done"

\* C35: an initialize() never rejects; when it enters its catch block, close()
\* is called on the manager the service holds, if it holds one; and when it
\* leaves the catch block, whether that close failed or not, the service
\* holds no manager, no tools, an empty tool set and is not initialized.
C35_InitializeFailureResets ==
    [][\A r \in Runs :
          /\ (Settles(r) /\ run'[r].kind \in {"initialize", "refresh"})
             => run'[r].result = "returned"
          /\ (~run[r].caught /\ run'[r].caught /\ run'[r].held # 0)
             => managers'[run'[r].held].closeCalled
          /\ (Settles(r) /\ run'[r].caught)
             => service' = ServiceReset]_vars

\* An initialize() has returned from its catch block after the close it
\* waited for there had failed.
C35_Witness ==
    \E r \in Runs :
        /\ run[r].kind = "initialize"
        /\ run[r].pc = "done"
        /\ run[r].caught
        /\ run[r].result = "returned"
        /\ run[r].held # 0
        /\ managers[run[r].held].closeCalled
        /\ managers[run[r].held].open
        /\ service = ServiceReset

\* The keys of an object.
Keys(obj) == {obj[n].key : n \in 1..Len(obj)}

\* The names server + '-' + name over the entries of a tool list.
PrefixedNames(list) ==
    {prefixedName(list[k].server, list[k].name) : k \in 1..Len(list)}

\* C36: the tool set a getToolSet() returns has exactly the keys
\* server + '-' + name of the entries of the list the listAllTools() before it
\* returned, the two values initialize() stores in toolSet and tools.
C36_ToolSetKeysMatchTools ==
    \A i \in Ops :
        (op[i].kind = "toolset" /\ op[i].pc = "done" /\ op[i].prev.returned)
        => Keys(op[i].value) = PrefixedNames(op[i].prev.value)

\* The case the claim names, in the current class: the list holds a tool of
\* a server whose manifest query failed when the tool set was fetched.
C36_QueryFailedBetweenFetches ==
    \E i \in Ops :
        /\ version = "current"
        /\ op[i].kind = "toolset"
        /\ op[i].pc = "done"
        /\ Len(op[i].prev.value) > 0
        /\ \A n \in 1..Len(op[i].queried) : op[i].queried[n].reply.st = "failed"
        /\ op[i].value = <<>>

\* A step of callTool() number i after which it waits for the manifest, or
\* has failed with NoClient or ToolNotFound.
FailsUnserved(i) ==
    /\ op'[i] # op[i]
    /\ op'[i].kind = "call"
    /\ \/ op'[i].pc = "fetching"
       \/ /\ op'[i].pc = "done"
          /\ op'[i].result.kind \in {"NoClient", "ToolNotFound"}

\* C37: a callTool() that fails with NoClient or ToolNotFound changes, in
\* none of its steps, the connection map, the tool catalog, the callable
\* cache or the two name mappings.
C37_FailedCallChangesNothing ==
    [][\A i \in Ops :
          FailsUnserved(i)
          => UNCHANGED <<clients, tools, toolsCache, serverToEscapedMap,
                         escapedToServerMap>>]_vars

\* A callTool() has failed with ToolNotFound on a manager that holds a
\* connection and a catalog.
C37_Witness ==
    /\ \E i \in Ops :
          /\ op[i].kind = "call"
          /\ op[i].pc = "done"
          /\ op[i].result.kind = "ToolNotFound"
    /\ Len(clients) > 0
    /\ Len(tools) > 0

\* C38: while the record of a completed close() is kept, the tool catalog
\* and the callable cache of the manager are empty, whatever operation was
\* suspended when close() ran and has resumed since.
C38_EmptyAfterClose ==
    (\E i \in Ops : op[i].kind = "close" /\ op[i].pc = "done")
    => tools = <<>> /\ toolsCache = <<>>

\* The same for close() calls that overlap nothing: once close() was called
\* on a connection and no close() is running, catalog and cache are empty.
C38_EmptyAfterCloseAlone ==
    (/\ \E s \in Servers : conns[s].closeCalled
     /\ \A i \in Ops : op[i].pc # "closing")
    => tools = <<>> /\ toolsCache = <<>>

\* Claims about the quit sequence
\* A before-quit event is emitted in this step.
BeforeQuitEmitted == app'.events # app.events

\* C39: once a quit was requested the application eventually quits with
\* cleanupComplete set, whether or not dispose() and stopAll() ever settle;
\* a cleanUp() waiting for dispose() goes on when its 3-second timer fires,
\* one waiting for the remaining cleanup returns when its 10-second timer
\* fires, and a before-quit event emitted while cleanupComplete is set is
\* not prevented and starts no cleanUp().
C39_QuitCompletes ==
    /\ (app.events > 0) ~> (app.state = "quit" /\ cleanupComplete)
    /\ [][/\ \A k \in Cleanups :
               /\ (cleanup[k].pc = "mcp" /\ cleanup'[k].mcpTimer = "fired")
                  => cleanup'[k].pc \in {"rest", "done"}
               /\ (cleanup[k].pc = "rest" /\ cleanup'[k].timeout = "fired")
                  => cleanup'[k].pc = "done" /\ cleanupComplete'
          /\ (BeforeQuitEmitted /\ cleanupComplete)
             => /\ app'.prevented = app.prevented
                /\ app'.state = "quitting"
                /\ \A k \in Cleanups :
                      cleanup[k].pc = "idle" => cleanup'[k].pc = "idle"]_vars

\* The application has quit with cleanupComplete set after a cleanUp() whose
\* dispose() and stopAll() never settled: both timers fired.
C39_Witness ==
    /\ app.state = "quit"
    /\ cleanupComplete
    /\ \E k \in Cleanups :
          /\ cleanup[k].pc = "done"
          /\ cleanup[k].dispose = "pending"
          /\ cleanup[k].stopAll = "pending"
          /\ cleanup[k].mcpTimer = "fired"
          /\ cleanup[k].timeout = "fired"
    /\ mainWindow = "open"

=============================================================================
